---- MODULE Spec2Model ----
(***************************************************************************)
(* The subagent orchestration core of the plan-mode extension:             *)
(*   runWithConcurrencyLimit  the worker pool (part_005:598-624)           *)
(*   runSubagentTask          one worker process and its cancellation      *)
(*   subagents.execute        a batch run                                  *)
(*   steer_subagent.execute   the rerun of one task of a stored run        *)
(*   rememberSubagentRun      the bounded run registry                     *)
(* Each part has its own specification over the shared variables; the      *)
(* variables of the other parts stay at their initial values.              *)
(***************************************************************************)
EXTENDS Integers, Sequences, FiniteSets, TLC

VARIABLES
    \* a call of runWithConcurrencyLimit with an arbitrary runner
    schPhase,     \* "idle" | "active" | "returned": the call's position
    items,        \* the items argument
    concurrency,  \* the concurrency argument
    sched,        \* the call's locals: nextIndex, results, the worker loops
    microQ,       \* worker loops whose awaited runner promise has resolved
    retval,       \* the array the call resolved with
    \* one call of runSubagentTask
    rn,           \* the invocation's locals and its child process
    sig,          \* the AbortSignal handed to it: "absent" | "idle" | "aborted"
    \* one call of subagents.execute
    bt,           \* the call's locals and its response
    brn,          \* the runSubagentTask invocation of each task index
    bsig,         \* the AbortSignal of the tool call
    \* the registry
    subagentRuns, \* the keys of the Map subagentRuns, in its order
    runObjs,      \* the run records ever stored, by run id
    insertLog,    \* history: the run ids in the order they entered the Map
    \* calls of steer_subagent.execute
    steers,       \* the calls: their locals and runSubagentTask invocation
    runnerCalls,  \* history: the tasks runSubagentTask was called for by steers
    lastResponse, \* what the tool call that returned last returned
    \* a call of one of the functions that keep no state
    lastCall,     \* the function called last, its argument and what it returned
    \* the output of the child process
    written,      \* history: the bytes the process of rn has written to
                  \* standard output so far
    errWritten,   \* history: the bytes it has written to standard error
    \* the plan-mode state manager and its host
    planState,    \* the manager's state variable
    activeTools,  \* the host's list of active tools
    setToolsCalls,\* history: the number of calls of pi.setActiveTools
    appended,     \* history: the number of calls of pi.appendEntry
    planOps       \* history: the number of operations of the manager so far

schedVars == <<schPhase, items, concurrency, sched, microQ, retval>>

runnerVars == <<rn, sig>>

batchVars == <<bt, brn, bsig>>

registryVars == <<subagentRuns, runObjs, insertLog>>

steerVars == <<steers, runnerCalls, lastResponse>>

callVars == <<lastCall>>

outVars == <<written, errWritten>>

planVars == <<planState, activeTools, setToolsCalls, appended, planOps>>

vars ==
    <<schedVars, runnerVars, batchVars, registryVars, steerVars, callVars, outVars,
      planVars>>

\* What the actions of one part leave alone.
notSched == <<runnerVars, batchVars, registryVars, steerVars, callVars, outVars, planVars>>

notRunner == <<schedVars, batchVars, registryVars, steerVars, callVars, outVars, planVars>>

notBatch == <<schedVars, runnerVars, steerVars, callVars, outVars, planVars>>

notSteer == <<schedVars, runnerVars, batchVars, callVars, outVars, planVars>>

notCall == <<schedVars, runnerVars, batchVars, registryVars, steerVars, outVars, planVars>>

notOutput == <<schedVars, batchVars, registryVars, steerVars, callVars, planVars>>

notPlan ==
    <<schedVars, runnerVars, batchVars, registryVars, steerVars, callVars, outVars>>

\* ------------------------------------------------------------------ bounds
\* Largest batch handed to runWithConcurrencyLimit.
MaxTasks == 3
\* Requested concurrency ranges over the halves MinHalves/2 .. MaxHalves/2.
MaxHalves == 9

MinHalves == 0 - 3

\* ----------------------------------------------------------------- helpers
Max(a, b) == IF a >= b THEN a ELSE b

Min(a, b) == IF a <= b THEN a ELSE b

Range(f) == {f[x] : x \in DOMAIN f}

\* F applied to the value of v: v is evaluated once and then named.
With(v, F(_)) == CHOOSE y \in {F(x) : x \in {v}} : TRUE

\* The elements of the first n entries of seq.
SubSeqSet(seq, n) == {seq[k] : k \in 1..Min(n, Len(seq))}

SeqsUpTo(S, n) == UNION {[1..k -> S] : k \in 0..n}

\* ------------------------------------------------- runWithConcurrencyLimit

\* A JavaScript number as far as Number.isFinite and Math.floor tell numbers
\* apart: a finite multiple of one half, or NaN, +Infinity, -Infinity.
Concurrencies ==
    {[kind |-> "finite", halves |-> h] : h \in MinHalves..MaxHalves}
        \cup {[kind |-> k, halves |-> 0] : k \in {"nan", "inf", "neginf"}}

Items == {"a", "b"}

Outcomes == {"ok", "fail"}

\* What runner(item, index) resolves with.
RunnerValue(item, index, out) == [item |-> item, index |-> index, out |-> out]

\* A slot of new Array(n) that was never assigned.
NoResult == [item |-> "none", index |-> 0 - 1, out |-> "none"]

\* A worker loop that has not run yet / has returned.
NoWorker == [pc |-> "returned", index |-> 0 - 1, value |-> NoResult]

\* part_005:607  Number.isFinite(concurrency) ? Math.floor(concurrency) : 1
NormalizedConcurrency(c) == IF c.kind = "finite" THEN c.halves \div 2 ELSE 1

SchedLimitAll(n, c) == n

\* part_005:608  Math.max(1, Math.min(normalizedConcurrency, items.length))
SchedLimit(n, c) == Max(1, Min(NormalizedConcurrency(c), n))

NextIndexStuck(n) == n

\* part_005:614  the value of nextIndex after  index = nextIndex++
NextIndexAfterClaim(n) == n + 1

MinOf(S) == CHOOSE x \in S : \A y \in S : x <= y

StoreFirstFree(results, index, value) ==
    LET free == {i \in DOMAIN results : results[i] = NoResult}
    IN  IF free = {} THEN results ELSE [results EXCEPT ![MinOf(free)] = value]

\* part_005:618  results[index] = <the awaited value>
StoreResult(results, index, value) == [results EXCEPT ![index] = value]

\* A pass of a worker loop that claims the last unclaimed index
ClaimFromEnd(its, s, w) ==
    LET index == Len(its) - 1 - s.nextIndex
        s1 == [s EXCEPT !.nextIndex = NextIndexAfterClaim(@)]
    IN  IF s.nextIndex >= Len(its)
        THEN [s1 EXCEPT !.workers[w] = NoWorker]
        ELSE [s1 EXCEPT !.workers[w] =
                            [pc |-> "pending", index |-> index, value |-> NoResult],
                        !.startLog = Append(@, index),
                        !.claimedBy[index] = @ \cup {w}]

ClaimOnce(its, s, w) ==
    LET index == s.nextIndex
        s1 == [s EXCEPT !.nextIndex = NextIndexAfterClaim(@)]
    IN  IF s.workers[w].index >= 0
        THEN [s EXCEPT !.workers[w] = NoWorker]
        ELSE IF index >= Len(its)
        THEN [s1 EXCEPT !.workers[w] = NoWorker]
        ELSE [s1 EXCEPT !.workers[w] =
                            [pc |-> "pending", index |-> index, value |-> NoResult],
                        !.startLog = Append(@, index),
                        !.claimedBy[index] = @ \cup {w}]

\* part_005:613-618  one pass of a worker loop up to its await: claim the next
\* index, return when none is left, else invoke the runner on that item.
ClaimAndRun(its, s, w) ==
    LET index == s.nextIndex
        s1 == [s EXCEPT !.nextIndex = NextIndexAfterClaim(@)]
    IN  IF index >= Len(its)
        THEN [s1 EXCEPT !.workers[w] = NoWorker]
        ELSE [s1 EXCEPT !.workers[w] =
                            [pc |-> "pending", index |-> index, value |-> NoResult],
                        !.startLog = Append(@, index),
                        !.claimedBy[index] = @ \cup {w}]

\* part_005:612  new Array(limit).fill(null).map(async () => ...): the loops
\* 1..k run one after the other, each up to its first await.
RECURSIVE StartWorkers(_, _, _)
StartWorkers(its, s, k) ==
    IF k = 0 THEN s ELSE ClaimAndRun(its, StartWorkers(its, s, k - 1), k)

\* part_005:609-610 and the history the claims are stated over: startLog is
\* the order of runner invocations, claimedBy[i] the loops that claimed i,
\* writes[i] the number of assignments to results[i], doneLog the order in
\* which invocations resolved and produced[i] what the invocation for i
\* resolved with.
SchedLocals(n, limit) ==
    [nextIndex |-> 0,
     results   |-> [i \in 0..(n - 1) |-> NoResult],
     workers   |-> [w \in 1..limit |-> NoWorker],
     startLog  |-> <<>>,
     claimedBy |-> [i \in 0..(n - 1) |-> {}],
     writes    |-> [i \in 0..(n - 1) |-> 0],
     doneLog   |-> <<>>,
     produced  |-> [i \in 0..(n - 1) |-> NoResult]]

SchedIdle == SchedLocals(0, 0)

SchedInit ==
    /\ schPhase = "idle"
    /\ items = <<>>
    /\ concurrency = [kind |-> "finite", halves |-> 2]
    /\ sched = SchedIdle
    /\ microQ = <<>>
    /\ retval = <<>>

\* part_005:598-622  the call up to  await Promise.all(workers)
SchedCall(its, c) ==
    /\ schPhase = "idle"
    /\ items' = its
    /\ concurrency' = c
    /\ microQ' = <<>>
    /\ IF Len(its) = 0
       THEN /\ schPhase' = "returned"
            /\ sched' = SchedIdle
            /\ retval' = SchedIdle.results
       ELSE /\ schPhase' = "active"
            /\ sched' = LET limit == SchedLimit(Len(its), c)
                        IN  StartWorkers(its, SchedLocals(Len(its), limit), limit)
            /\ retval' = <<>>
    /\ UNCHANGED notSched

\* The runner invocation awaited by loop w resolves with a value: the
\* continuation of the loop is queued as a microtask.
RunnerResolve(w, out) ==
    /\ schPhase = "active"
    /\ sched.workers[w].pc = "pending"
    /\ LET index == sched.workers[w].index
           value == RunnerValue(items[index + 1], index, out)
       IN  sched' = [sched EXCEPT !.workers[w].pc = "resolved",
                                  !.workers[w].value = value,
                                  !.doneLog = Append(@, index),
                                  !.produced[index] = value]
    /\ microQ' = Append(microQ, w)
    /\ UNCHANGED <<schPhase, items, concurrency, retval, notSched>>

\* part_005:618 and 613-617  the continuation of the oldest resolved loop:
\* store the awaited value, then go round the loop again.
WorkerResume ==
    /\ schPhase = "active"
    /\ microQ # <<>>
    /\ LET w == Head(microQ)
           wk == sched.workers[w]
           s1 == [sched EXCEPT
                     !.results = StoreResult(@, wk.index, wk.value),
                     !.writes[wk.index] = @ + 1]
       IN  sched' = ClaimAndRun(items, s1, w)
    /\ microQ' = Tail(microQ)
    /\ UNCHANGED <<schPhase, items, concurrency, retval, notSched>>

\* part_005:622-623  every loop has returned: Promise.all resolves and the
\* call returns results.
SchedReturn ==
    /\ schPhase = "active"
    /\ \A w \in DOMAIN sched.workers : sched.workers[w].pc = "returned"
    /\ schPhase' = "returned"
    /\ retval' = sched.results
    /\ UNCHANGED <<items, concurrency, sched, microQ, notSched>>

SchedNext ==
    \/ \E its \in SeqsUpTo(Items, MaxTasks), c \in Concurrencies : SchedCall(its, c)
    \/ \E w \in DOMAIN sched.workers, out \in Outcomes : RunnerResolve(w, out)
    \/ WorkerResume
    \/ SchedReturn

\* ------------------------------------------------------------------- texts
\* A text is a sequence of characters. A character is a one-character string;
\* a longer string stands for a run of non-blank characters that nothing
\* here looks inside of.
NL == "\n"

IsSpace(c) == c \in {" ", NL}

RECURSIVE TrimLeft(_)
TrimLeft(t) == IF t # <<>> /\ IsSpace(Head(t)) THEN TrimLeft(Tail(t)) ELSE t

RECURSIVE TrimRight(_)
TrimRight(t) ==
    IF t # <<>> /\ IsSpace(t[Len(t)]) THEN TrimRight(SubSeq(t, 1, Len(t) - 1)) ELSE t

\* String.prototype.trim
Trim(t) == TrimRight(TrimLeft(t))

\* part_005:669  text.replace(/\s+/g, " ")
RECURSIVE CollapseSpace(_)
CollapseSpace(t) ==
    IF t = <<>> THEN <<>>
    ELSE IF IsSpace(Head(t)) THEN <<" ">> \o CollapseSpace(TrimLeft(t))
    ELSE <<Head(t)>> \o CollapseSpace(Tail(t))

\* part_005:668-677
SummarizeSnippet(t, maxLength) ==
    With(Trim(CollapseSpace(t)), LAMBDA singleLine :
        IF Len(singleLine) <= maxLength
        THEN singleLine
        ELSE SubSeq(singleLine, 1, maxLength - 3) \o <<".", ".", ".">>)

\* String.prototype.split("\n")
RECURSIVE SplitLines(_)
SplitLines(t) ==
    IF \A k \in DOMAIN t : t[k] # NL
    THEN <<t>>
    ELSE LET k == MinOf({j \in DOMAIN t : t[j] = NL})
         IN  <<SubSeq(t, 1, k - 1)>> \o SplitLines(SubSeq(t, k + 1, Len(t)))

\* Array.prototype.join("\n")
RECURSIVE JoinLines(_)
JoinLines(ts) ==
    IF ts = <<>> THEN <<>>
    ELSE IF Len(ts) = 1 THEN ts[1]
    ELSE ts[1] \o <<NL>> \o JoinLines(Tail(ts))

Last(seq) == seq[Len(seq)]

ButLast(seq) == SubSeq(seq, 1, Len(seq) - 1)

\* ----------------------------------------------------- the event protocol
\* The texts carried by the events of the model.
TextA == <<"A">>

TextB == <<"B", " ", "H", "u", ".">>

TextR == <<"R">>

\* The character e-acute, in UTF-8 the bytes C3 A9, and U+FFFD, which the
\* decoder puts in the place of a byte that is no character.
Eacute == "E"

Replacement == "?"

LeadByte == "C3"

TrailByte == "A9"

TextBlock(t) == [type |-> "text", text |-> t, name |-> <<>>, args |-> <<>>]

\* A toolCall block; args is JSON.stringify(arguments), <<>> when undefined.
ToolBlock(n, a) == [type |-> "toolCall", text |-> <<>>, name |-> n, args |-> a]

Event(type, role, content) == [type |-> type, role |-> role, content |-> content]

\* The JSON documents the worker process writes, one character each:
\*   a, b  message_end of the assistant with one text block
\*   c     message_end of the assistant: text, toolCall, text
\*   t     message_end of the assistant with one toolCall block
\*   w     message_end of the assistant whose text is blank
\*   u     message_end of a user message
\*   r     tool_result_end with a text
\*   j     a document of another type
\*   n     the document null
\*   E     message_end of the assistant whose text is the character e-acute
\*   ??    the same with two U+FFFD for its text
\* and "(" followed by ")" are the two halves of document b.
JsonDocument(c) ==
    CASE c = "a" -> Event("message_end", "assistant", <<TextBlock(TextA)>>)
      [] c = "b" -> Event("message_end", "assistant", <<TextBlock(TextB)>>)
      [] c = "c" -> Event("message_end", "assistant",
                          <<TextBlock(TextA), ToolBlock(<<"read">>, <<"{", "}">>),
                            TextBlock(TextB)>>)
      [] c = "t" -> Event("message_end", "assistant", <<ToolBlock(<<>>, <<>>)>>)
      [] c = "w" -> Event("message_end", "assistant", <<TextBlock(<<" ">>)>>)
      [] c = "u" -> Event("message_end", "user", <<TextBlock(TextA)>>)
      [] c = "r" -> Event("tool_result_end", "toolResult", <<TextBlock(TextR)>>)
      [] c = "j" -> Event("turn_start", "", <<>>)
      [] c = "n" -> Event("null", "", <<>>)
      [] c = Eacute -> Event("message_end", "assistant", <<TextBlock(<<Eacute>>)>>)
      [] c = Replacement ->
            Event("message_end", "assistant", <<TextBlock(<<Replacement, Replacement>>)>>)
      [] OTHER   -> Event("invalid", "", <<>>)

DocumentChars == {"a", "b", "c", "t", "w", "u", "r", "j", "n", Eacute}

\* part_005:856  JSON.parse(line): blanks around a document and between its
\* tokens are allowed; anything else is a SyntaxError ("invalid").
JsonParse(line) ==
    With(Trim(line), LAMBDA body :
        IF Len(body) = 1 /\ body[1] \in DocumentChars
        THEN JsonDocument(body[1])
        ELSE IF /\ Len(body) >= 2
                /\ body[1] = "("
                /\ Last(body) = ")"
                /\ \A k \in 2..(Len(body) - 1) : IsSpace(body[k])
        THEN JsonDocument("b")
        ELSE IF body = <<Replacement, Replacement>>
        THEN JsonDocument(Replacement)
        ELSE JsonDocument("invalid"))

\* part_005:626-632 and 583-587  the text blocks joined by "\n", trimmed
GetMessageText(message) ==
    Trim(JoinLines(LET texts == SelectSeq(message.content, LAMBDA b : b.type = "text")
                   IN  [k \in DOMAIN texts |-> texts[k].text]))

\* part_005:578-588
GetAssistantText(message) ==
    IF message.role # "assistant" THEN <<>> ELSE GetMessageText(message)

\* part_005:684-698
FormatToolCallArguments(args) ==
    IF args = <<>> THEN <<>>
    ELSE LET preview == SummarizeSnippet(args, 90)
         IN  IF preview = <<>> THEN <<>> ELSE <<" ">> \o preview

\* ------------------------------------------------------ extractReferences
\* "H" stands for the characters http:// (or https://).
UrlPunct == {")", ",", ".", ";"}

RECURSIVE StripUrlPunct(_)
\* part_005:593  match.replace(/[),.;]+$/, "")
StripUrlPunct(t) ==
    IF t # <<>> /\ Last(t) \in UrlPunct THEN StripUrlPunct(ButLast(t)) ELSE t

\* The end of the run of non-blank characters that starts at position k.
RECURSIVE WordEnd(_, _)
WordEnd(t, k) == IF k < Len(t) /\ ~IsSpace(t[k + 1]) THEN WordEnd(t, k + 1) ELSE k

\* part_005:592  text.matchAll(/https?:\/\/\S+/g) scanning from position k
RECURSIVE UrlMatches(_, _)
UrlMatches(t, k) ==
    IF k > Len(t) THEN <<>>
    ELSE IF t[k] = "H" /\ k < Len(t) /\ ~IsSpace(t[k + 1])
    THEN <<SubSeq(t, k, WordEnd(t, k))>> \o UrlMatches(t, WordEnd(t, k) + 1)
    ELSE UrlMatches(t, k + 1)

\* new Set(...) then Array.from: first occurrences, in order
RECURSIVE Dedupe(_)
Dedupe(seq) ==
    IF seq = <<>> THEN <<>>
    ELSE LET rest == Dedupe(ButLast(seq))
         IN  IF Last(seq) \in Range(rest) THEN rest ELSE Append(rest, Last(seq))

\* part_005:590-596
ExtractReferences(t) ==
    LET found == UrlMatches(t, 1)
    IN  Dedupe([k \in DOMAIN found |-> StripUrlPunct(found[k])])

\* --------------------------------------------------------- runSubagentTask
\* part_005:768
maxActivities == 120

\* The code of a process that was ended by a signal (close passes null), and
\* the code close passes after a failed spawn (the negated errno).
NullCode == 0 - 1

SpawnErrCode == 0 - 2

ErrorMessage == <<"spawn pi ENOENT">>

NormalizedTask(id, prompt, cwd) == [id |-> id, prompt |-> prompt, cwd |-> cwd]

NoTask == NormalizedTask("", "", <<>>)

\* SubagentTaskResult without its two timestamps.
TaskResult(taskId, task, cwd, output, references, exitCode, stderr, activities, notes) ==
    [taskId |-> taskId, task |-> task, cwd |-> cwd, output |-> output,
     references |-> references, exitCode |-> exitCode, stderr |-> stderr,
     activities |-> activities, steeringNotes |-> notes]

NoTaskResult == TaskResult("", "", <<>>, <<>>, <<>>, 0 - 9, <<>>, <<>>, <<>>)

\* The locals of one runSubagentTask invocation, the child process it
\* spawned (proc, exitCode, sigLog, outLeft, errLeft) and the order of the
\* events so far (log). proc is "running" while the process lives, "exited"
\* from its end on, "spawnfail" when spawn could not start it. threw: the
\* handler that is running has thrown; crashed: an exception that no handler
\* caught has ended the host process.
RunnerIdle ==
    [live |-> FALSE, task |-> NoTask, cwd |-> <<>>, notes |-> <<>>,
     activities |-> <<>>, actCount |-> 0,
     stdoutBuffer |-> <<>>, stderr |-> <<>>, assistantOutputs |-> <<>>,
     aborted |-> FALSE, abortRequested |-> FALSE, closed |-> FALSE,
     resolved |-> FALSE, timer |-> "unset", listening |-> FALSE,
     threw |-> FALSE, crashed |-> FALSE, result |-> NoTaskResult,
     proc |-> "none", exitCode |-> NullCode, sigLog |-> <<>>,
     errorSeen |-> FALSE, outLeft |-> 0, errLeft |-> 0, log |-> <<>>]

\* The newest entry goes instead of the oldest.
DropNewest(activities) ==
    IF Len(activities) > maxActivities
    THEN SubSeq(activities, 1, maxActivities)
    ELSE activities

\* part_005:781-783  activities.shift() once the buffer exceeds its capacity
DropOldest(activities) ==
    IF Len(activities) > maxActivities THEN Tail(activities) ELSE activities

\* part_005:779-783  activities.push(activity) and the shift. The result a
\* runner has resolved with holds this very array (part_005:930, 947
\* `activities`), so what is pushed later is in the result's list as well.
PushActivity(r, activity) ==
    With(DropOldest(Append(r.activities, activity)), LAMBDA activities :
        [r EXCEPT !.activities = activities,
                  !.actCount = @ + 1,
                  !.result = IF r.resolved THEN [@ EXCEPT !.activities = activities]
                             ELSE @])

\* part_005:770-785  (the activity's timestamp is left out)
RecordActivity(r, kind, text) ==
    With(SummarizeSnippet(text, 180), LAMBDA normalized :
        IF normalized = <<>>
        THEN r
        ELSE PushActivity(r, [kind |-> kind, text |-> normalized]))

\* part_005:809-810
AbortMark(r) == [r EXCEPT !.abortRequested = TRUE, !.aborted = TRUE]

\* process.kill(signal): the signal reaches a living process; for a process
\* that is gone nothing is sent.
Kill(r, signal) ==
    With(r, LAMBDA r0 :
        IF r0.proc = "running"
        THEN [r0 EXCEPT !.sigLog = Append(@, signal), !.log = Append(@, signal)]
        ELSE r0)

GraceKillsAtOnce(r) == Kill([r EXCEPT !.timer = "armed"], "SIGKILL")

\* part_005:818-828  setTimeout(..., 3000): the timer is armed
ArmForceKill(r) == [r EXCEPT !.timer = "armed"]

\* part_005:805-829  throws: process.kill("SIGTERM") threw, which the code
\* expects of a process that is already gone.
AbortListener(r, throws) ==
    IF r.abortRequested \/ r.closed
    THEN r
    ELSE With(RecordActivity(AbortMark(r), "status", <<"aborting">>), LAMBDA r1 :
         With(Kill([r1 EXCEPT !.log = Append(@, "abort")], "SIGTERM"), LAMBDA r2 :
         IF throws /\ r2.proc # "running" THEN r2 ELSE ArmForceKill(r2)))

\* part_005:818-828  the grace timer fires
ForceKill(r) ==
    With([r EXCEPT !.timer = "fired", !.log = Append(@, "timer")], LAMBDA r1 :
        IF r1.closed
        THEN r1
        ELSE With(RecordActivity(r1, "status", <<"forcing termination">>), LAMBDA r2 :
             Kill(r2, "SIGKILL")))

\* part_005:831-839
CleanupAbortHandling(r) == [r EXCEPT !.timer = "unset", !.listening = FALSE]

\* part_005:841-847
ResolveOnce(r, result) ==
    With(r, LAMBDA r0 :
        IF r0.resolved THEN r0 ELSE [r0 EXCEPT !.resolved = TRUE, !.result = result])

\* part_005:867-877  one activity per toolCall and per text block
RECURSIVE RecordParts(_, _)
RecordParts(r, parts) ==
    IF parts = <<>> THEN r
    ELSE With(Head(parts), LAMBDA part :
         With(IF part.type = "toolCall"
              THEN RecordActivity(r, "tool",
                       (IF part.name = <<>> THEN <<"unknown_tool">> ELSE part.name)
                           \o FormatToolCallArguments(part.args))
              ELSE IF part.type = "text"
              THEN RecordActivity(r, "assistant", part.text)
              ELSE r,
              LAMBDA r1 : RecordParts(r1, Tail(parts))))

\* part_005:849-891  reading .type of the document null throws a TypeError
\* that nothing in the handler catches (threw).
ProcessLine(r, line) ==
    IF Trim(line) = <<>> THEN r
    ELSE With(JsonParse(line), LAMBDA parsed :
         CASE parsed.type = "invalid" -> r
           [] parsed.type = "null" -> [r EXCEPT !.threw = TRUE]
           [] parsed.type = "message_end" ->
                IF parsed.role # "assistant"
                THEN r
                ELSE With(GetAssistantText(parsed), LAMBDA text :
                     IF Len(text) > 0
                     THEN [RecordParts(r, parsed.content) EXCEPT
                              !.assistantOutputs = Append(@, text)]
                     ELSE RecordParts(r, parsed.content))
           [] parsed.type = "tool_result_end" ->
                With(GetMessageText(parsed), LAMBDA toolText :
                     IF toolText # <<>>
                     THEN RecordActivity(r, "toolResult", toolText)
                     ELSE r)
           [] OTHER -> r)

\* part_005:897-899  for (const line of lines) processLine(line), cut short
\* by a throw
RECURSIVE ProcessLines(_, _)
ProcessLines(r, lines) ==
    IF lines = <<>> THEN r
    ELSE With(ProcessLine(r, Head(lines)), LAMBDA r1 :
         IF r1.threw THEN r1 ELSE ProcessLines(r1, Tail(lines)))

\* part_005:894  chunk.toString(): the bytes of one chunk decoded as UTF-8
\* by themselves. A lead byte with its trail byte is one character; a lead
\* byte without it and a trail byte without its lead byte are U+FFFD each.
RECURSIVE BufferToString(_)
BufferToString(chunk) ==
    IF chunk = <<>> THEN <<>>
    ELSE IF Len(chunk) >= 2 /\ chunk[1] = LeadByte /\ chunk[2] = TrailByte
    THEN <<Eacute>> \o BufferToString(SubSeq(chunk, 3, Len(chunk)))
    ELSE IF Head(chunk) \in {LeadByte, TrailByte}
    THEN <<Replacement>> \o BufferToString(Tail(chunk))
    ELSE <<Head(chunk)>> \o BufferToString(Tail(chunk))

\* part_005:893-900
OnStdoutData(r, chunk) ==
    With(SplitLines(r.stdoutBuffer \o BufferToString(chunk)), LAMBDA lines :
        ProcessLines([r EXCEPT !.stdoutBuffer = Last(lines)], ButLast(lines)))

RECURSIVE RecordStderrLines(_, _)
RecordStderrLines(r, lines) ==
    IF lines = <<>> THEN r
    ELSE With(IF Trim(Head(lines)) # <<>>
              THEN RecordActivity(r, "stderr", Head(lines))
              ELSE r,
              LAMBDA r1 : RecordStderrLines(r1, Tail(lines)))

\* part_005:902-910
OnStderrData(r, chunk) ==
    With(BufferToString(chunk), LAMBDA text :
        RecordStderrLines([r EXCEPT !.stderr = @ \o text], SplitLines(text)))

\* part_005:927  code ?? 1
ExitCodeOf(code) == IF code = NullCode THEN 1 ELSE code

CodeText(code) == IF code = 0 THEN "0" ELSE IF code = 1 THEN "1" ELSE "other"

\* part_005:928  aborted ? "aborted" : stderr
StderrOf(r) == IF r.aborted THEN <<"aborted">> ELSE r.stderr

\* part_005:921-933  the result the close handler builds
CloseResult(r, code) ==
    With(IF r.assistantOutputs = <<>> THEN <<>> ELSE Last(r.assistantOutputs),
         LAMBDA output :
            TaskResult(r.task.id, r.task.prompt, r.cwd, output, ExtractReferences(output),
                       ExitCodeOf(code), StderrOf(r), r.activities, r.notes))

\* part_005:912-934
OnClose(r, code) ==
    With(CleanupAbortHandling([r EXCEPT !.closed = TRUE, !.log = Append(@, "close")]),
         LAMBDA r1 :
    With(IF Trim(r1.stdoutBuffer) # <<>> THEN ProcessLine(r1, r1.stdoutBuffer) ELSE r1,
         LAMBDA r2 :
    IF r2.threw THEN r2
    ELSE With(RecordActivity(r2, "status",
                  <<"finished with exit code ", CodeText(ExitCodeOf(code))>>),
              LAMBDA r3 : With(CloseResult(r3, code),
              LAMBDA result : ResolveOnce(r3, result)))))

\* part_005:939-951  the result the error handler builds
ErrorResult(r, message) ==
    TaskResult(r.task.id, r.task.prompt, r.cwd, <<>>, <<>>, 1, message,
               r.activities, r.notes)

\* The error handler without its activity.
OnErrorUnrecorded(r, message) ==
    With(CleanupAbortHandling([r EXCEPT !.errorSeen = TRUE, !.log = Append(@, "error")]),
         LAMBDA r1 : With(ErrorResult(r1, message),
         LAMBDA result : ResolveOnce(r1, result)))

\* part_005:936-952
OnError(r, message) ==
    With(CleanupAbortHandling([r EXCEPT !.errorSeen = TRUE, !.log = Append(@, "error")]),
         LAMBDA r1 :
    With(RecordActivity(r1, "stderr", message),
         LAMBDA r2 : With(ErrorResult(r2, message),
         LAMBDA result : ResolveOnce(r2, result))))

\* An exception leaves an event handler: the handler's remaining statements
\* are not run; the host process either ends (fatal) or, with a handler for
\* uncaught exceptions installed, carries on.
Uncaught(r, fatal) ==
    With(r, LAMBDA r0 :
        IF r0.threw
        THEN [r0 EXCEPT !.threw = FALSE, !.crashed = fatal, !.log = Append(@, "throw")]
        ELSE r0)

\* part_005:765  task.cwd?.trim() ? task.cwd : defaultCwd
EffectiveCwd(task, defaultCwd) == IF Trim(task.cwd) # <<>> THEN task.cwd ELSE defaultCwd

\* The call with a signal that is only listened to, also when it has fired
InvokeRunnerListening(task, defaultCwd, opts, env) ==
    With(RecordActivity(
            [RunnerIdle EXCEPT
                !.live = TRUE, !.task = task,
                !.cwd = EffectiveCwd(task, defaultCwd),
                !.notes = opts.notes,
                !.proc = IF env.spawns THEN "running" ELSE "spawnfail",
                !.exitCode = IF env.spawns THEN NullCode ELSE SpawnErrCode,
                !.outLeft = env.outLeft, !.errLeft = env.errLeft,
                !.log = <<"spawn">>],
            "status", <<"started">>),
         LAMBDA r1 :
            IF ~opts.hasSignal THEN r1 ELSE [r1 EXCEPT !.listening = TRUE])

\* part_005:742-961  the call up to the promise it returns. opts: notes
\* (steeringNotes), hasSignal and signalAborted (options.signal and its
\* state at the call); env: whether spawn starts the process, how many
\* characters it will write, and whether kill throws for a process that is
\* gone.
InvokeRunner(task, defaultCwd, opts, env) ==
    With(RecordActivity(
            [RunnerIdle EXCEPT
                !.live = TRUE, !.task = task,
                !.cwd = EffectiveCwd(task, defaultCwd),
                !.notes = opts.notes,
                !.proc = IF env.spawns THEN "running" ELSE "spawnfail",
                !.exitCode = IF env.spawns THEN NullCode ELSE SpawnErrCode,
                !.outLeft = env.outLeft, !.errLeft = env.errLeft,
                !.log = <<"spawn">>],
            "status", <<"started">>),
         LAMBDA r1 :
            IF ~opts.hasSignal THEN r1
            ELSE IF opts.signalAborted THEN AbortListener(r1, env.killThrows)
            ELSE [r1 EXCEPT !.listening = TRUE])

\* One runner on its own.
\* Bounds of the single-runner specification: characters the process writes
\* to standard output and to standard error, and the longest chunk of a read.
MaxStdout == 2

MaxStderr == 1

MaxChunk == 2

StdoutChars == {"a", "n", "(", ")", NL}

StderrChars == {"e", NL}

Chunks(chars, n) == SeqsUpTo(chars, Min(n, MaxChunk)) \ {<<>>}

RunnerTasks == {NormalizedTask("t1", "p1", <<>>), NormalizedTask("t2", "p2", <<"/w">>)}

DefaultCwd == <<"/d">>

RunnerInit ==
    /\ rn = RunnerIdle
    /\ sig = "absent"

\* runSubagentTask(task, defaultCwd, options) is called.
RunTask(task, sigState, spawns, killThrows) ==
    /\ ~rn.live
    /\ sig' = sigState
    /\ rn' = InvokeRunner(task, DefaultCwd,
                          [notes |-> <<>>, hasSignal |-> sigState # "absent",
                           signalAborted |-> sigState = "aborted"],
                          [spawns |-> spawns, outLeft |-> MaxStdout,
                           errLeft |-> MaxStderr, killThrows |-> killThrows])
    /\ UNCHANGED notRunner

\* The AbortSignal fires: its listeners run once and are removed.
SignalAbort(throws) ==
    /\ rn.live /\ ~rn.crashed
    /\ sig = "idle"
    /\ sig' = "aborted"
    /\ rn' = IF rn.listening
             THEN [AbortListener(rn, throws) EXCEPT !.listening = FALSE]
             ELSE rn
    /\ UNCHANGED notRunner

\* part_005:893  a chunk of standard output arrives
StdoutData(chunk) ==
    /\ rn.live /\ ~rn.crashed /\ ~rn.closed
    /\ rn.proc \in {"running", "exited"}
    /\ Len(chunk) <= rn.outLeft
    /\ \E fatal \in BOOLEAN :
          rn' = Uncaught(OnStdoutData([rn EXCEPT !.outLeft = @ - Len(chunk)], chunk), fatal)
    /\ UNCHANGED <<sig, notRunner>>

\* part_005:902  a chunk of standard error arrives
StderrData(chunk) ==
    /\ rn.live /\ ~rn.crashed /\ ~rn.closed
    /\ rn.proc \in {"running", "exited"}
    /\ Len(chunk) <= rn.errLeft
    /\ rn' = OnStderrData([rn EXCEPT !.errLeft = @ - Len(chunk)], chunk)
    /\ UNCHANGED <<sig, notRunner>>

\* The codes a process can end with: 0 or 1 by itself, null when a signal
\* ended it; SIGKILL always ends it.
ExitCodes(r) ==
    IF "SIGKILL" \in Range(r.sigLog) THEN {NullCode}
    ELSE IF r.sigLog # <<>> THEN {0, 1, NullCode}
    ELSE {0, 1}

\* The child process ends.
ProcExit(code) ==
    /\ rn.live /\ rn.proc = "running"
    /\ code \in ExitCodes(rn)
    /\ rn' = [rn EXCEPT !.proc = "exited", !.exitCode = code, !.log = Append(@, "exit")]
    /\ UNCHANGED <<sig, notRunner>>

\* The process that SIGKILL was sent to ends.
ProcKilled ==
    /\ "SIGKILL" \in Range(rn.sigLog)
    /\ ProcExit(NullCode)

\* part_005:912  the close event: the process has ended and its streams are
\* closed (after a failed spawn close follows error).
CloseEvent ==
    /\ rn.live /\ ~rn.crashed /\ ~rn.closed
    /\ rn.proc = "exited" \/ (rn.proc = "spawnfail" /\ rn.errorSeen)
    /\ \E fatal \in BOOLEAN : rn' = Uncaught(OnClose(rn, rn.exitCode), fatal)
    /\ UNCHANGED <<sig, notRunner>>

\* part_005:936  the error event of a process that could not be started
ErrorEvent ==
    /\ rn.live /\ ~rn.crashed
    /\ rn.proc = "spawnfail" /\ ~rn.errorSeen
    /\ rn' = OnError(rn, ErrorMessage)
    /\ UNCHANGED <<sig, notRunner>>

\* part_005:818  the grace timer fires
TimerFire ==
    /\ rn.live /\ ~rn.crashed
    /\ rn.timer = "armed"
    /\ rn' = ForceKill(rn)
    /\ UNCHANGED <<sig, notRunner>>

RunnerNext ==
    \/ \E task \in RunnerTasks, s \in {"absent", "idle", "aborted"}, sp, kt \in BOOLEAN :
          RunTask(task, s, sp, kt)
    \/ \E throws \in BOOLEAN : SignalAbort(throws)
    \/ \E chunk \in Chunks(StdoutChars, MaxStdout) : StdoutData(chunk)
    \/ \E chunk \in Chunks(StderrChars, MaxStderr) : StderrData(chunk)
    \/ \E code \in {0, 1, NullCode} : ProcExit(code)
    \/ CloseEvent
    \/ ErrorEvent
    \/ TimerFire

\* -------------------------------------------------- normalizeSubagentTasks
\* A task as the caller gives it. An id or cwd that is absent is the empty
\* text: the program reads both only through ?.trim().
RawTask(id, prompt, cwd) == [id |-> id, prompt |-> prompt, cwd |-> cwd]

Digit(n) == <<"0", "1", "2", "3", "4", "5", "6", "7", "8", "9">>[n + 1]

\* String.prototype.toLowerCase on the letters of the model
ToLower(c) == IF c = "A" THEN "a" ELSE IF c = "B" THEN "b" ELSE c

LowerCase(t) == [k \in DOMAIN t |-> ToLower(t[k])]

\* The characters of the model that [a-z0-9_-] matches.
IdChars == {"a", "b", "k", "s", "t", "_", "-"} \cup {Digit(n) : n \in 0..9}

RECURSIVE DropOther(_)
DropOther(t) == IF t # <<>> /\ Head(t) \notin IdChars THEN DropOther(Tail(t)) ELSE t

\* part_005:644  .replace(/[^a-z0-9_-]+/g, "-")
RECURSIVE ReplaceOther(_)
ReplaceOther(t) ==
    IF t = <<>> THEN <<>>
    ELSE IF Head(t) \in IdChars THEN <<Head(t)>> \o ReplaceOther(Tail(t))
    ELSE <<"-">> \o ReplaceOther(DropOther(t))

RECURSIVE DropDashes(_)
DropDashes(t) == IF t # <<>> /\ Head(t) = "-" THEN DropDashes(Tail(t)) ELSE t

\* part_005:645  .replace(/-+/g, "-")
RECURSIVE CollapseDashes(_)
CollapseDashes(t) ==
    IF t = <<>> THEN <<>>
    ELSE IF Head(t) = "-" THEN <<"-">> \o CollapseDashes(DropDashes(t))
    ELSE <<Head(t)>> \o CollapseDashes(Tail(t))

RECURSIVE StripLeft(_)
StripLeft(t) == IF t # <<>> /\ Head(t) \in {"-", "_"} THEN StripLeft(Tail(t)) ELSE t

RECURSIVE StripRight(_)
StripRight(t) ==
    IF t # <<>> /\ t[Len(t)] \in {"-", "_"} THEN StripRight(ButLast(t)) ELSE t

\* part_005:646  .replace(/^[-_]+|[-_]+$/g, "")
StripEdges(t) == StripRight(StripLeft(t))

\* `task-${index}`
FallbackIdFromZero(index) == <<"t", "a", "s", "k", "-", Digit(index)>>

\* part_005:639  `task-${index + 1}`
FallbackId(index) == <<"t", "a", "s", "k", "-", Digit(index + 1)>>

\* The id taken whether it is used or not
KeepId(id, base, suffix, used) == id

\* part_005:648-653  the first of base, base-2, base-3, ... that is unused
RECURSIVE FirstUnusedId(_, _, _, _)
FirstUnusedId(id, base, suffix, used) ==
    IF id \in used
    THEN FirstUnusedId(base \o <<"-", Digit(suffix)>>, base, suffix + 1, used)
    ELSE id

\* part_005:647 with the suffix starting at 3
NormalizeFromThree(rawId, index, used) ==
    With(StripEdges(CollapseDashes(ReplaceOther(LowerCase(Trim(rawId))))), LAMBDA cleaned :
    With(IF cleaned = <<>> THEN FallbackId(index) ELSE cleaned, LAMBDA base :
        FirstUnusedId(base, base, 3, used)))

\* part_005:638-657  (the caller adds the id to used)
NormalizeSubagentTaskId(rawId, index, used) ==
    With(StripEdges(CollapseDashes(ReplaceOther(LowerCase(Trim(rawId))))), LAMBDA cleaned :
    With(IF cleaned = <<>> THEN FallbackId(index) ELSE cleaned, LAMBDA base :
        FirstUnusedId(base, base, 2, used)))

\* part_005:659-666  the tasks after the first index tasks, given the ids used
RECURSIVE NormalizeFrom(_, _, _)
NormalizeFrom(tasks, index, used) ==
    IF index >= Len(tasks) THEN <<>>
    ELSE With(tasks[index + 1], LAMBDA task :
         With(NormalizeSubagentTaskId(task.id, index, used), LAMBDA id :
            <<NormalizedTask(id, task.prompt, task.cwd)>>
                \o NormalizeFrom(tasks, index + 1, used \cup {id})))

NormalizeSubagentTasks(tasks) == NormalizeFrom(tasks, 0, {})

\* ---------------------------------------------- resolveSubagentConcurrency
\* The value replaced by 1 where the check rejects it
ResolveOrOne(value) ==
    With(IF value.kind = "undefined" THEN [kind |-> "finite", halves |-> 4] ELSE value,
         LAMBDA c :
            IF c.kind # "finite" \/ c.halves % 2 # 0 THEN 1
            ELSE IF c.halves \div 2 < 1 \/ c.halves \div 2 > 4 THEN 1
            ELSE c.halves \div 2)

\* The check with 5 as the largest value
ResolveUpToFive(value) ==
    With(IF value.kind = "undefined" THEN [kind |-> "finite", halves |-> 4] ELSE value,
         LAMBDA c :
            IF c.kind # "finite" \/ c.halves % 2 # 0 THEN 0
            ELSE IF c.halves \div 2 < 1 \/ c.halves \div 2 > 5 THEN 0
            ELSE c.halves \div 2)

\* A concurrency parameter is absent ("undefined") or a number, given as in
\* Concurrencies. part_006:209-218: null is the model's 0.
ResolveSubagentConcurrency(value) ==
    With(IF value.kind = "undefined" THEN [kind |-> "finite", halves |-> 4] ELSE value,
         LAMBDA c :
            IF c.kind # "finite" \/ c.halves % 2 # 0 THEN 0
            ELSE IF c.halves \div 2 < 1 \/ c.halves \div 2 > 4 THEN 0
            ELSE c.halves \div 2)

\* ---------------------------------------------------- progress and details
\* part_005:700-713
FormatSubagentActivity(activity) ==
    (CASE activity.kind = "tool"       -> <<"->", " ">>
       [] activity.kind = "assistant"  -> <<"~", " ">>
       [] activity.kind = "toolResult" -> <<"<-", " ">>
       [] activity.kind = "stderr"     -> <<"!", " ">>
       [] OTHER                        -> <<"*", " ">>) \o activity.text

\* part_005:1187-1192
QueuedProgress(task) ==
    [taskId |-> task.id, prompt |-> task.prompt, status |-> "queued",
     latestActivity |-> <<>>, activityCount |-> 0]

\* Every result counts as a success.
DetailsCountingAll(runId, results) ==
    [runId |-> runId, tasks |-> results,
     successCount |-> Len(results), totalCount |-> Len(results)]

\* part_005:991-999
BuildSubagentRunDetails(runId, results) ==
    [runId |-> runId, tasks |-> results,
     successCount |-> Cardinality({k \in DOMAIN results : results[k].exitCode = 0}),
     totalCount |-> Len(results)]

\* ------------------------------------------------------ rememberSubagentRun
\* part_005:1052
MaxStoredRuns == 20

\* part_005:1048  the Map subagentRuns: its keys in insertion order. The run
\* records are objects; runObjs holds each by its run id.
RECURSIVE EvictOldest(_)
EvictOldest(keys) == IF Len(keys) > MaxStoredRuns THEN EvictOldest(Tail(keys)) ELSE keys

MoveKeyLast(keys, key) == Append(SelectSeq(keys, LAMBDA k : k # key), key)

\* Map.prototype.set: a new key goes last, a present key keeps its place.
MapSetKey(keys, key) == IF key \in Range(keys) THEN keys ELSE Append(keys, key)

\* A registry that is full makes room before it looks for the key
RememberMakingRoom(keys, runId) ==
    MapSetKey(IF Len(keys) >= MaxStoredRuns THEN Tail(keys) ELSE keys, runId)

\* part_005:1050-1059  the keys after rememberSubagentRun(run)
RememberSubagentRun(keys, runId) == EvictOldest(MapSetKey(keys, runId))

\* The registry: the keys of the Map in its order, the run objects by run
\* id (an evicted run lives on while a steer call holds it), and the
\* history of insertions, a set of a key that was not present.
Registry(keys, objs, log) == [keys |-> keys, objs |-> objs, log |-> log]

EmptyRegistry == Registry(<<>>, <<>>, <<>>)

\* The run object with the given tasks array.
PutRun(objs, runId, tasks) ==
    [id \in DOMAIN objs \cup {runId} |->
        IF id = runId THEN [runId |-> runId, tasks |-> tasks] ELSE objs[id]]

\* part_005:1050-1059  rememberSubagentRun of the run object whose tasks
\* array is tasks
StoreRun(reg, runId, tasks) ==
    Registry(RememberSubagentRun(reg.keys, runId),
             PutRun(reg.objs, runId, tasks),
             IF runId \in Range(reg.keys) THEN reg.log ELSE Append(reg.log, runId))

\* Map.prototype.get: is there a run under this key
Stored(keys, runId) == runId \in Range(keys)

\* --------------------------------------------------------- subagents.execute
\* Bounds of the batch specification: tasks in the batch, and characters a
\* worker writes to standard output.
MaxBatchTasks == 2

MaxBatchOut == 1

TaskIndexes == 0..(MaxBatchTasks - 1)

\* part_005:634-636  the n-th run id created; ids do not repeat
CreateSubagentRunId(n) ==
    IF n < 10 THEN <<"run-", Digit(n)>> ELSE <<"run-", Digit(n \div 10), Digit(n % 10)>>

NoRunId == <<>>

\* What a tool call returns: isError, which text, and details where given.
NoDetails == BuildSubagentRunDetails(NoRunId, <<>>)

Response(isError, text, known, details) ==
    [isError |-> isError, text |-> text, known |-> known, details |-> details]

NoResponse == Response(FALSE, "none", <<>>, NoDetails)

\* part_005:1168-1177  what a subagents.execute call is made with: the
\* concurrency parameter, and whether plan mode is active.
BatchParams(value, active) == [concurrency |-> value, active |-> active]

\* The locals of one subagents.execute call: emitted counts the calls of
\* emitProgress, snapshots holds what those of the handler that ran last
\* handed to onUpdate, sched holds the locals of its runWithConcurrencyLimit
\* call.
BatchIdle ==
    [phase |-> "idle", params |-> BatchParams([kind |-> "undefined", halves |-> 0], FALSE),
     tasks |-> <<>>, cwd |-> <<>>, runId |-> NoRunId,
     completed |-> 0, progress |-> <<>>, emitted |-> 0, snapshots |-> <<>>,
     sched |-> SchedIdle,
     response |-> NoResponse]

\* What the environment does to a runner that is started: whether spawn
\* starts the process, and whether kill throws for a process that is gone.
Env(spawns, killThrows) == [spawns |-> spawns, killThrows |-> killThrows]

\* A batch call and the runner invocations it made, one per task index.
BatchState(b, rs, sg, reg) == [b |-> b, rs |-> rs, sg |-> sg, reg |-> reg]

\* part_005:1196-1201  the details of an update: completed, total and a
\* copy of progress
ProgressDetails(b) ==
    [completed |-> b.completed, total |-> Len(b.tasks), tasks |-> b.progress]

\* part_005:1194-1204  emitProgress()
EmitProgress(b) ==
    [b EXCEPT !.emitted = @ + 1, !.snapshots = Append(@, ProgressDetails(b))]

\* onActivity with one emitProgress after the last of the activities
RECURSIVE OnActivitiesEmitOnce(_, _, _)
OnActivitiesEmitOnce(b, index, activities) ==
    IF activities = <<>> THEN b
    ELSE With([b EXCEPT
                !.progress[index + 1].latestActivity =
                    FormatSubagentActivity(Head(activities)),
                !.progress[index + 1].activityCount = @ + 1], LAMBDA b1 :
            IF Len(activities) = 1 THEN EmitProgress(b1)
            ELSE OnActivitiesEmitOnce(b1, index, Tail(activities)))

\* part_005:1218-1225  onActivity for each of the activities, in turn
RECURSIVE OnActivities(_, _, _)
OnActivities(b, index, activities) ==
    IF activities = <<>> THEN b
    ELSE OnActivities(
            EmitProgress([b EXCEPT
                !.progress[index + 1].latestActivity =
                    FormatSubagentActivity(Head(activities)),
                !.progress[index + 1].activityCount = @ + 1]),
            index, Tail(activities))

\* The activities a runner recorded between two of its states.
NewActivities(before, after) ==
    With(Min(after.actCount - before.actCount, Len(after.activities)), LAMBDA count :
        SubSeq(after.activities, Len(after.activities) - count + 1, Len(after.activities)))

\* part_005:1208-1226  the runner callback up to its await: the task is
\* marked running and runSubagentTask is called.
StartTask(st, index, env) ==
    With(EmitProgress([st.b EXCEPT
            !.progress[index + 1].status = "running",
            !.progress[index + 1].latestActivity = <<"started">>]), LAMBDA b1 :
    With(InvokeRunner(st.b.tasks[index + 1], st.b.cwd,
            [notes |-> <<>>, hasSignal |-> st.sg # "absent",
             signalAborted |-> st.sg = "aborted"],
            [spawns |-> env.spawns, outLeft |-> MaxBatchOut, errLeft |-> 0,
             killThrows |-> env.killThrows]), LAMBDA r :
        [st EXCEPT !.b = OnActivities(b1, index, NewActivities(RunnerIdle, r)),
                   !.rs[index] = r]))

\* part_005:612-618  the loops started by ClaimAndRun invoke the runner
\* callback for the indexes in startLog from position k on.
RECURSIVE StartClaimed(_, _, _, _)
StartClaimed(st, k, spawnable, killThrows) ==
    IF k > Len(st.b.sched.startLog) THEN st
    ELSE With(st.b.sched.startLog[k], LAMBDA index :
            StartClaimed(StartTask(st, index, Env(spawnable[index], killThrows)),
                         k + 1, spawnable, killThrows))

\* The call's end without rememberSubagentRun
FinishUnstored(st) ==
    With([k \in 1..Len(st.b.tasks) |-> st.b.sched.results[k - 1]], LAMBDA results :
    With(BuildSubagentRunDetails(st.b.runId, results), LAMBDA details :
        [st EXCEPT
            !.b.phase = "returned",
            !.b.response = Response(details.successCount # details.totalCount,
                                    "summary", <<>>, details)]))

\* The call's end with a response that is an error when no task succeeded
FinishErrorIfNone(st) ==
    With([k \in 1..Len(st.b.tasks) |-> st.b.sched.results[k - 1]], LAMBDA results :
    With(BuildSubagentRunDetails(st.b.runId, results), LAMBDA details :
        [st EXCEPT
            !.b.phase = "returned",
            !.b.response = Response(details.successCount = 0 /\ details.totalCount > 0,
                                    "summary", <<>>, details),
            !.reg = StoreRun(@, st.b.runId, results)]))

\* part_005:1238-1254  the call's end: the run is stored and returned
FinishBatch(st) ==
    With([k \in 1..Len(st.b.tasks) |-> st.b.sched.results[k - 1]], LAMBDA results :
    With(BuildSubagentRunDetails(st.b.runId, results), LAMBDA details :
        [st EXCEPT
            !.b.phase = "returned",
            !.b.response = Response(details.successCount # details.totalCount,
                                    "summary", <<>>, details),
            !.reg = StoreRun(@, st.b.runId, results)]))

\* part_005:622  Promise.all(workers) resolves once every loop has returned
AllReturned(s) == \A w \in DOMAIN s.workers : s.workers[w].pc = "returned"

\* The callback with its count made after the update is emitted
TaskResolvedLate(st, index, result, env) ==
    With(CHOOSE w \in DOMAIN st.b.sched.workers :
            /\ st.b.sched.workers[w].pc = "pending"
            /\ st.b.sched.workers[w].index = index, LAMBDA w :
    With([EmitProgress([st.b EXCEPT
            !.progress[index + 1].status =
                IF result.exitCode = 0 THEN "completed" ELSE "failed",
            !.progress[index + 1].latestActivity =
                IF result.exitCode = 0 THEN <<"finished (ok)">> ELSE <<"finished (failed)">>])
          EXCEPT !.completed = @ + 1],
         LAMBDA b1 :
    With(ClaimAndRun(b1.tasks,
            [b1.sched EXCEPT !.results = StoreResult(@, index, result),
                             !.writes[index] = @ + 1,
                             !.doneLog = Append(@, index),
                             !.produced[index] = result], w), LAMBDA s2 :
    With([st EXCEPT !.b = [b1 EXCEPT !.sched = s2]], LAMBDA st2 :
        IF s2.workers[w].pc = "pending" THEN StartTask(st2, s2.workers[w].index, env)
        ELSE IF AllReturned(s2) THEN FinishBatch(st2)
        ELSE st2))))

\* part_005:1228-1235 and 618, 613-617  runSubagentTask for task index has
\* resolved: the callback counts and marks the task and returns the result,
\* its loop stores it and goes round again; the call ends with the last loop.
TaskResolved(st, index, result, env) ==
    With(CHOOSE w \in DOMAIN st.b.sched.workers :
            /\ st.b.sched.workers[w].pc = "pending"
            /\ st.b.sched.workers[w].index = index, LAMBDA w :
    With(EmitProgress([st.b EXCEPT
            !.completed = @ + 1,
            !.progress[index + 1].status =
                IF result.exitCode = 0 THEN "completed" ELSE "failed",
            !.progress[index + 1].latestActivity =
                IF result.exitCode = 0 THEN <<"finished (ok)">> ELSE <<"finished (failed)">>]),
         LAMBDA b1 :
    With(ClaimAndRun(b1.tasks,
            [b1.sched EXCEPT !.results = StoreResult(@, index, result),
                             !.writes[index] = @ + 1,
                             !.doneLog = Append(@, index),
                             !.produced[index] = result], w), LAMBDA s2 :
    With([st EXCEPT !.b = [b1 EXCEPT !.sched = s2]], LAMBDA st2 :
        IF s2.workers[w].pc = "pending" THEN StartTask(st2, s2.workers[w].index, env)
        ELSE IF AllReturned(s2) THEN FinishBatch(st2)
        ELSE st2))))

\* The inputs of the batch specification.
RawTasks == {RawTask(<<>>, "p", <<>>), RawTask(<<"A", " ">>, "q", <<"/w">>)}

ConcurrencyParams ==
    {[kind |-> "undefined", halves |-> 0], [kind |-> "finite", halves |-> 2],
     [kind |-> "finite", halves |-> 3], [kind |-> "finite", halves |-> 10]}

BatchInit ==
    /\ bt = BatchIdle
    /\ brn = [i \in TaskIndexes |-> RunnerIdle]
    /\ bsig = "absent"
    /\ subagentRuns = EmptyRegistry.keys
    /\ runObjs = EmptyRegistry.objs
    /\ insertLog = EmptyRegistry.log

\* The batch as a handler finds it.
Cur ==
    BatchState([bt EXCEPT !.snapshots = <<>>], brn, bsig,
               Registry(subagentRuns, runObjs, insertLog))

Becomes(st) ==
    /\ bt' = st.b
    /\ brn' = st.rs
    /\ bsig' = st.sg
    /\ subagentRuns' = st.reg.keys
    /\ runObjs' = st.reg.objs
    /\ insertLog' = st.reg.log

\* An exception that nothing caught has ended the host process.
HostDead == \E i \in TaskIndexes : brn[i].crashed

\* part_005:1168-1255  subagents.execute is called: everything up to the
\* first await that has to wait for a process.
RunBatch(rawTasks, value, active, sigState, spawnable, killThrows) ==
    /\ bt.phase = "idle"
    /\ IF ~active
       THEN Becomes([Cur EXCEPT !.b.phase = "returned",
                                !.b.params = BatchParams(value, active),
                                !.b.response = Response(TRUE, "inactive", <<>>, NoDetails)])
       ELSE IF ResolveSubagentConcurrency(value) = 0
       THEN Becomes([Cur EXCEPT !.b.phase = "returned",
                                !.b.params = BatchParams(value, active),
                                !.b.response = Response(TRUE, "concurrency", <<>>, NoDetails)])
       ELSE LET tasks == NormalizeSubagentTasks(rawTasks)
                n == Len(tasks)
                limit == SchedLimit(n, [kind |-> "finite",
                                        halves |-> 2 * ResolveSubagentConcurrency(value)])
                b0 == EmitProgress([BatchIdle EXCEPT
                        !.phase = "running", !.params = BatchParams(value, active),
                        !.tasks = tasks, !.cwd = DefaultCwd,
                        !.runId = CreateSubagentRunId(Cardinality(DOMAIN runObjs) + 1),
                        !.progress = [k \in 1..n |-> QueuedProgress(tasks[k])]])
                st0 == [Cur EXCEPT !.b = b0, !.sg = sigState]
            IN  IF n = 0
                THEN Becomes(FinishBatch(st0))
                ELSE Becomes(StartClaimed(
                        [st0 EXCEPT !.b.sched =
                            StartWorkers(tasks, SchedLocals(n, limit), limit)],
                        1, spawnable, killThrows))
    /\ UNCHANGED notBatch

\* A handler of the runner of task i has run and left it as r: its
\* activities reach the progress, and when it resolved the runner's promise
\* the continuations of the callback and of its loop run before anything
\* else does.
RunnerHandled(i, r, env) ==
    \E st \in {With(r, LAMBDA r1 :
                With([Cur EXCEPT !.rs[i] = r1,
                                 !.b = OnActivities(@, i, NewActivities(brn[i], r1))],
                     LAMBDA st1 :
                        IF r1.resolved /\ ~brn[i].resolved
                        THEN TaskResolved(st1, i, r1.result, env)
                        ELSE st1))} :
        Becomes(st)

\* The abort listeners run in the order in which they were registered.
RECURSIVE AbortFrom(_, _, _)
AbortFrom(st, k, throws) ==
    IF k > Len(st.b.sched.startLog) THEN st
    ELSE With(st.b.sched.startLog[k], LAMBDA i :
         With(IF st.rs[i].listening
              THEN [AbortListener(st.rs[i], throws) EXCEPT !.listening = FALSE]
              ELSE st.rs[i], LAMBDA r :
            AbortFrom([st EXCEPT !.rs[i] = r,
                                 !.b = OnActivities(@, i, NewActivities(st.rs[i], r))],
                      k + 1, throws)))

\* The AbortSignal of the tool call fires.
BatchAbort(throws) ==
    /\ bt.phase # "idle" /\ ~HostDead
    /\ bsig = "idle"
    /\ \E st \in {AbortFrom([Cur EXCEPT !.sg = "aborted"], 1, throws)} : Becomes(st)
    /\ UNCHANGED notBatch

\* part_005:893  a chunk of the standard output of task i's process
BatchStdout(i, chunk) ==
    /\ brn[i].live /\ ~HostDead /\ ~brn[i].closed
    /\ brn[i].proc \in {"running", "exited"}
    /\ Len(chunk) <= brn[i].outLeft
    /\ \E fatal \in BOOLEAN :
          RunnerHandled(i, Uncaught(
              OnStdoutData([brn[i] EXCEPT !.outLeft = @ - Len(chunk)], chunk), fatal),
              Env(TRUE, FALSE))
    /\ UNCHANGED notBatch

\* The process of task i ends.
BatchExit(i, code) ==
    /\ brn[i].live /\ brn[i].proc = "running"
    /\ code \in ExitCodes(brn[i])
    /\ brn' = [brn EXCEPT ![i] = [@ EXCEPT !.proc = "exited", !.exitCode = code,
                                           !.log = Append(@, "exit")]]
    /\ UNCHANGED <<bt, bsig, registryVars, notBatch>>

\* The process of task i that SIGKILL was sent to ends.
BatchKilled(i) ==
    /\ "SIGKILL" \in Range(brn[i].sigLog)
    /\ BatchExit(i, NullCode)

\* part_005:912  the close event of task i's process
BatchClose(i, env) ==
    /\ brn[i].live /\ ~HostDead /\ ~brn[i].closed
    /\ brn[i].proc = "exited" \/ (brn[i].proc = "spawnfail" /\ brn[i].errorSeen)
    /\ \E fatal \in BOOLEAN :
          RunnerHandled(i, Uncaught(OnClose(brn[i], brn[i].exitCode), fatal), env)
    /\ UNCHANGED notBatch

\* part_005:936  the error event of task i's process
BatchError(i, env) ==
    /\ brn[i].live /\ ~HostDead
    /\ brn[i].proc = "spawnfail" /\ ~brn[i].errorSeen
    /\ RunnerHandled(i, OnError(brn[i], ErrorMessage), env)
    /\ UNCHANGED notBatch

\* part_005:818  the grace timer of task i's runner fires
BatchTimer(i) ==
    /\ brn[i].live /\ ~HostDead
    /\ brn[i].timer = "armed"
    /\ RunnerHandled(i, ForceKill(brn[i]), Env(TRUE, FALSE))
    /\ UNCHANGED notBatch

Envs == {Env(sp, kt) : sp, kt \in BOOLEAN}

BatchNext ==
    \/ \E rawTasks \in SeqsUpTo(RawTasks, MaxBatchTasks), value \in ConcurrencyParams,
          active \in BOOLEAN, s \in {"absent", "idle", "aborted"},
          spawnable \in [TaskIndexes -> BOOLEAN], kt \in BOOLEAN :
            RunBatch(rawTasks, value, active, s, spawnable, kt)
    \/ \E throws \in BOOLEAN : BatchAbort(throws)
    \/ \E i \in TaskIndexes, chunk \in Chunks({"a", "n"}, MaxBatchOut) : BatchStdout(i, chunk)
    \/ \E i \in TaskIndexes, code \in {0, 1, NullCode} : BatchExit(i, code)
    \/ \E i \in TaskIndexes, env \in Envs : BatchClose(i, env)
    \/ \E i \in TaskIndexes, env \in Envs : BatchError(i, env)
    \/ \E i \in TaskIndexes : BatchTimer(i)

\* ---------------------------------------------------- steer_subagent.execute
\* Bounds of the registry specification: batch runs that complete, and
\* steer calls.
MaxRuns == 22

MaxSteers == 2

\* ctx.cwd of the steer calls
SteerCwd == <<"/s">>

\* The process of a runner ends with the given code.
Exited(r, code) ==
    [r EXCEPT !.proc = "exited", !.exitCode = code, !.log = Append(@, "exit")]

\* A runner from its start to the resolution of its promise, its process
\* writing nothing: after a failed spawn the error event; else the process
\* exits with code 0 or 1, or the signal is aborted and SIGTERM ends it, and
\* the close event follows.
Finish(r, how) ==
    IF r.proc = "spawnfail" THEN OnError(r, ErrorMessage)
    ELSE IF how = "exit0" THEN OnClose(Exited(r, 0), 0)
    ELSE IF how = "exit1" THEN OnClose(Exited(r, 1), 1)
    ELSE With(Exited(AbortListener(r, FALSE), NullCode), LAMBDA r1 : OnClose(r1, NullCode))

Hows == {"exit0", "exit1", "cancelled"}

\* part_005:1269-1365  the locals of one steer_subagent.execute call while
\* it awaits runSubagentTask; run is held by its id.
SteerIdle ==
    [phase |-> "idle", runId |-> NoRunId, taskId |-> <<>>, taskIndex |-> 0 - 1,
     rn |-> RunnerIdle]

SteerDone == [SteerIdle EXCEPT !.phase = "done"]

\* findIndex that answers 0 where nothing matches
FindIndexOrFirst(tasks, taskId) ==
    IF \E k \in DOMAIN tasks : tasks[k].taskId = taskId
    THEN MinOf({k \in DOMAIN tasks : tasks[k].taskId = taskId}) - 1
    ELSE 0

\* part_005:1303  run.tasks.findIndex((task) => task.taskId === taskId)
FindIndex(tasks, taskId) ==
    IF \E k \in DOMAIN tasks : tasks[k].taskId = taskId
    THEN MinOf({k \in DOMAIN tasks : tasks[k].taskId = taskId}) - 1
    ELSE 0 - 1

\* part_005:1305  run.tasks.map((task) => task.taskId)
TaskIds(tasks) == [k \in DOMAIN tasks |-> tasks[k].taskId]

\* part_005:1330-1334  the task handed to runSubagentTask again
RerunTask(previousTask) ==
    NormalizedTask(previousTask.taskId, previousTask.task, previousTask.cwd)

\* The assignment made to the first element whatever the index
ReplaceFirstTask(tasks, taskIndex, result) == [tasks EXCEPT ![1] = result]

\* The assignment made only for a rerun that succeeded
ReplaceIfSucceeded(tasks, taskIndex, result) ==
    IF result.exitCode = 0 THEN [tasks EXCEPT ![taskIndex + 1] = result] ELSE tasks

\* part_005:1350  run.tasks[taskIndex] = rerunResult
ReplaceTask(tasks, taskIndex, result) == [tasks EXCEPT ![taskIndex + 1] = result]

\* The parameters of a steer call.
SteerParams(runId, taskId, instruction) ==
    [runId |-> runId, taskId |-> taskId, instruction |-> instruction]

\* The state a steer call works on.
SteerState(ss, reg, calls, resp) == [ss |-> ss, reg |-> reg, calls |-> calls, resp |-> resp]

\* A steer call returns.
SteerReturns(st, s, response) ==
    [st EXCEPT !.ss[s] = SteerDone, !.resp = response]

\* part_005:1269-1348  steer call s up to its await of runSubagentTask
SteerUntilAwait(st, s, params, active, spawns) ==
    With(Trim(params.runId), LAMBDA runId :
    With(Trim(params.taskId), LAMBDA taskId :
    With(Trim(params.instruction), LAMBDA instruction :
    IF ~active
    THEN SteerReturns(st, s, Response(TRUE, "inactive", <<>>, NoDetails))
    ELSE IF runId = <<>> \/ taskId = <<>> \/ instruction = <<>>
    THEN SteerReturns(st, s, Response(TRUE, "required", <<>>, NoDetails))
    ELSE IF ~Stored(st.reg.keys, runId)
    THEN SteerReturns(st, s,
            Response(TRUE, IF Len(st.reg.keys) > 0 THEN "unknown run" ELSE "no runs",
                     st.reg.keys, NoDetails))
    ELSE With(st.reg.objs[runId], LAMBDA run :
         With(FindIndex(run.tasks, taskId), LAMBDA taskIndex :
         IF taskIndex = 0 - 1
         THEN SteerReturns(st, s,
                Response(TRUE, "unknown task", TaskIds(run.tasks), NoDetails))
         ELSE With(run.tasks[taskIndex + 1], LAMBDA previousTask :
              With(RerunTask(previousTask), LAMBDA rerunTask :
                [st EXCEPT
                    !.ss[s] = [phase |-> "running", runId |-> runId, taskId |-> taskId,
                               taskIndex |-> taskIndex,
                               rn |-> InvokeRunner(rerunTask, SteerCwd,
                                        [notes |-> Append(previousTask.steeringNotes,
                                                          instruction),
                                         hasSignal |-> TRUE, signalAborted |-> FALSE],
                                        [spawns |-> spawns, outLeft |-> 0, errLeft |-> 0,
                                         killThrows |-> FALSE])],
                    !.calls = Append(@, rerunTask.id)])))))))

\* part_005:1350-1364  steer call s after its await: the result replaces the
\* task's in the run the call holds, and the run is stored again.
SteerAfterAwait(st, s, rerunResult) ==
    With(st.ss[s], LAMBDA call :
    With(ReplaceTask(st.reg.objs[call.runId].tasks, call.taskIndex, rerunResult),
         LAMBDA tasks :
            [SteerReturns(st, s,
                Response(rerunResult.exitCode # 0, "steered", <<>>,
                         BuildSubagentRunDetails(call.runId, tasks)))
             EXCEPT !.reg = StoreRun(@, call.runId, tasks)]))

\* A steer request: the parameters, whether plan mode is active, and
\* whether the worker process can be spawned.
SteerRequest(runId, taskId, instruction, active, spawns) ==
    [params |-> SteerParams(runId, taskId, instruction), active |-> active,
     spawns |-> spawns]

\* The run id of the first batch as a caller writes it, and an instruction.
SteerRunId == <<" ">> \o CreateSubagentRunId(1) \o <<NL>>

SteerInstruction == <<"i", " ">>

\* The steer requests of the registry specification: for each task of the
\* first run; for the second task also with another instruction, and with a
\* worker that cannot be spawned; for a task id the run does not have; for a
\* run id that was never given out; with a blank run id, task id or
\* instruction; and one made outside plan mode.
SteerRequests ==
    {SteerRequest(SteerRunId, <<"t", "a", "s", "k", "-", "1", " ">>, SteerInstruction,
                  TRUE, TRUE),
     SteerRequest(SteerRunId, <<"a">>, SteerInstruction, TRUE, TRUE),
     SteerRequest(SteerRunId, <<"a">>, SteerInstruction, TRUE, FALSE),
     SteerRequest(SteerRunId, <<"a">>, <<"j">>, TRUE, TRUE)}
    \cup {SteerRequest(SteerRunId, <<"z">>, SteerInstruction, TRUE, TRUE),
          SteerRequest(<<"x">>, <<"a">>, SteerInstruction, TRUE, TRUE),
          SteerRequest(<<" ">>, <<"a">>, SteerInstruction, TRUE, TRUE),
          SteerRequest(SteerRunId, <<>>, SteerInstruction, TRUE, TRUE),
          SteerRequest(<<"x">>, <<"z">>, <<" ">>, TRUE, TRUE),
          SteerRequest(CreateSubagentRunId(1), <<"a">>, <<"i">>, FALSE, TRUE)}

\* The batch whose completion stores a run in the registry specification,
\* and its results: the first task exited with code 0, the second with 1.
SampleTasks ==
    NormalizeSubagentTasks(<<RawTask(<<>>, "p", <<>>), RawTask(<<"A", " ">>, "q", <<"/w">>)>>)

SampleResult(task, how) ==
    Finish(InvokeRunner(task, DefaultCwd,
                [notes |-> <<>>, hasSignal |-> TRUE, signalAborted |-> FALSE],
                [spawns |-> TRUE, outLeft |-> 0, errLeft |-> 0, killThrows |-> FALSE]),
           how).result

SampleResults == <<SampleResult(SampleTasks[1], "exit0"), SampleResult(SampleTasks[2], "exit1")>>

SteerInit ==
    /\ steers = [s \in 1..MaxSteers |-> SteerIdle]
    /\ runnerCalls = <<>>
    /\ lastResponse = NoResponse

NowSteer == SteerState(steers, Registry(subagentRuns, runObjs, insertLog), runnerCalls,
                       lastResponse)

SteerBecomes(st) ==
    /\ steers' = st.ss
    /\ subagentRuns' = st.reg.keys
    /\ runObjs' = st.reg.objs
    /\ insertLog' = st.reg.log
    /\ runnerCalls' = st.calls
    /\ lastResponse' = st.resp

\* part_005:1238-1254  a subagents.execute call comes to its end: it stores
\* its run under a new run id and returns.
BatchStored ==
    /\ Cardinality(DOMAIN runObjs) < MaxRuns
    /\ \E runId \in {CreateSubagentRunId(Cardinality(DOMAIN runObjs) + 1)} :
       \E reg \in {StoreRun(Registry(subagentRuns, runObjs, insertLog), runId,
                            SampleResults)} :
       \E details \in {BuildSubagentRunDetails(runId, SampleResults)} :
          /\ subagentRuns' = reg.keys
          /\ runObjs' = reg.objs
          /\ insertLog' = reg.log
          /\ lastResponse' = Response(details.successCount # details.totalCount,
                                      "summary", <<>>, details)
    /\ UNCHANGED <<steers, runnerCalls, notSteer>>

\* part_005:1269  steer_subagent.execute is called (the calls take the
\* slots of steers in turn).
SteerCall(s, params, active, spawns) ==
    /\ steers[s].phase = "idle"
    /\ \A t \in 1..(s - 1) : steers[t].phase # "idle"
    /\ \E st \in {SteerUntilAwait(NowSteer, s, params, active, spawns)} : SteerBecomes(st)
    /\ UNCHANGED notSteer

\* The runSubagentTask invocation of steer call s resolves.
SteerResolved(s, how) ==
    /\ steers[s].phase = "running"
    /\ \E st \in {SteerAfterAwait(NowSteer, s, Finish(steers[s].rn, how).result)} :
          SteerBecomes(st)
    /\ UNCHANGED notSteer

RegistryNext ==
    \/ BatchStored
    \/ \E s \in 1..MaxSteers, request \in SteerRequests :
            SteerCall(s, request.params, request.active, request.spawns)
    \/ \E s \in 1..MaxSteers, how \in Hows : SteerResolved(s, how)

\* ------------------------------------------ calls of the stateless functions
\* Bound of the function specification: tasks in a batch to normalize.
MaxNormTasks == 3

\* A call, the only one of a behaviour: the function, its argument and the
\* value it returned.
Call(fn, arg, ret) == [fn |-> fn, arg |-> arg, ret |-> ret]

NoCall == Call("none", <<>>, <<>>)

CallInit == lastCall = NoCall

\* The ids callers give: none, ids that differ in case and blanks only, an
\* id of the form the collision rule produces, one of the form of the
\* fallback, and one made of separators only.
RawIds ==
    {<<>>, <<"A", " ">>, <<"a">>, <<"a", "-", "2">>, <<"t", "a", "s", "k", "-", "2">>,
     <<"_", " ", "-">>}

\* The tasks callers give: each id with a prompt and no working directory,
\* or with another prompt and a working directory.
NormRawTasks ==
    {RawTask(id, "p", <<>>) : id \in RawIds} \cup {RawTask(id, "q", <<"/w">>) : id \in RawIds}

\* The values callers give as concurrency: none, the numbers of
\* Concurrencies, and the integers 5 and 6.
ConcurrencyValues ==
    Concurrencies \cup {[kind |-> "undefined", halves |-> 0]}
        \cup {[kind |-> "finite", halves |-> h] : h \in {10, 12}}

\* part_005:659  normalizeSubagentTasks(tasks) is called and returns
NormalizeCall ==
    /\ lastCall = NoCall
    /\ \E tasks \in SeqsUpTo(NormRawTasks, MaxNormTasks) :
          lastCall' = Call("normalizeSubagentTasks", tasks, NormalizeSubagentTasks(tasks))
    /\ UNCHANGED notCall

\* part_006:209  resolveSubagentConcurrency(value) is called and returns
ConcurrencyCall ==
    /\ lastCall = NoCall
    /\ \E value \in ConcurrencyValues :
          lastCall' = Call("resolveSubagentConcurrency", value,
                           ResolveSubagentConcurrency(value))
    /\ UNCHANGED notCall

\* Bound of the function specification: the words of a text to extract
\* references from.
MaxRefWords == 3

\* The words of the texts: URLs with and without punctuation after them,
\* a URL inside a word and after another, the bare scheme, a plain word.
RefWords ==
    {<<"H", "a">>, <<"H", "b">>, <<"H", "a", ".">>, <<"H", "a", ")", ",">>,
     <<"H", ".">>, <<"H">>, <<"x", "H", "b", ";", "H", "a">>, <<"a">>}

\* Array.prototype.join(" ")
RECURSIVE JoinWords(_)
JoinWords(ws) ==
    IF ws = <<>> THEN <<>>
    ELSE IF Len(ws) = 1 THEN ws[1]
    ELSE ws[1] \o <<" ">> \o JoinWords(Tail(ws))

\* part_005:590  extractReferences(text) is called and returns
ReferencesCall ==
    /\ lastCall = NoCall
    /\ \E ws \in SeqsUpTo(RefWords, MaxRefWords) :
          \E text \in {JoinWords(ws)} :
              lastCall' = Call("extractReferences", text, ExtractReferences(text))
    /\ UNCHANGED notCall

\* Bound of the function specification: the results of a run.
MaxDetailTasks == 3

\* Results of tasks that ended with the exit codes 0, 1 and 2.
DetailResults ==
    {TaskResult(id, "p", <<"/tmp">>, <<>>, <<>>, code, <<>>, <<>>, <<>>) :
        id \in {"task-1", "task-2"}, code \in {0, 1, 2}}

\* part_005:991  buildSubagentRunDetails(runId, results) is called and
\* returns
DetailsCall ==
    /\ lastCall = NoCall
    /\ \E results \in SeqsUpTo(DetailResults, MaxDetailTasks) :
          lastCall' = Call("buildSubagentRunDetails",
                           [runId |-> CreateSubagentRunId(1), results |-> results],
                           BuildSubagentRunDetails(CreateSubagentRunId(1), results))
    /\ UNCHANGED notCall

CallNext ==
    \/ NormalizeCall
    \/ ConcurrencyCall
    \/ ReferencesCall
    \/ DetailsCall

\* ------------------------------------------- subagents.execute, in outline
\* part_005:912  the process of task i, which has written nothing, ends
\* with the given code and its close event is delivered.
BatchSettled(i, code, env) ==
    /\ brn[i].live /\ ~HostDead /\ ~brn[i].closed
    /\ brn[i].proc = "running"
    /\ code \in ExitCodes(brn[i])
    /\ RunnerHandled(i, OnClose(Exited(brn[i], code), code), env)
    /\ UNCHANGED notBatch

\* The steps of a batch whose worker processes write nothing to standard
\* output.
BatchQuietNext ==
    \/ \E rawTasks \in SeqsUpTo(RawTasks, MaxBatchTasks), value \in ConcurrencyParams,
          active \in BOOLEAN, s \in {"absent", "idle", "aborted"},
          spawnable \in [TaskIndexes -> BOOLEAN], kt \in BOOLEAN :
            RunBatch(rawTasks, value, active, s, spawnable, kt)
    \/ \E throws \in BOOLEAN : BatchAbort(throws)
    \/ \E i \in TaskIndexes, code \in {0, 1, NullCode}, env \in Envs :
            BatchSettled(i, code, env)
    \/ \E i \in TaskIndexes, env \in Envs : BatchError(i, env)

\* ------------------------------------------ the runner's standard output
\* Bound of the output specification: the bytes the process writes.
MaxOutput == 4

\* The bytes the process writes: documents, the two bytes of e-acute and
\* the line feed.
OutputBytes == {"a", "c", "w", "u", "j", "n", LeadByte, TrailByte, NL}

OutputTask == NormalizedTask("t1", "p1", <<>>)

\* The runner right after its call: the process is started, nothing read.
OutputStarted ==
    InvokeRunner(OutputTask, DefaultCwd,
                 [notes |-> <<>>, hasSignal |-> FALSE, signalAborted |-> FALSE],
                 [spawns |-> TRUE, outLeft |-> MaxOutput, errLeft |-> 0,
                  killThrows |-> FALSE])

OutputInit == written = <<>> /\ errWritten = <<>>

\* runSubagentTask is called without a signal and spawn starts the process.
OutputStart ==
    /\ ~rn.live
    /\ rn' = OutputStarted
    /\ written' = <<>>
    /\ errWritten' = <<>>
    /\ UNCHANGED <<sig, notOutput>>

\* part_005:893  the process writes some bytes and the stream hands them to
\* the data handler as one chunk.
OutputData ==
    /\ rn.live /\ ~rn.crashed /\ ~rn.closed
    /\ rn.proc = "running"
    /\ \E chunk \in SeqsUpTo(OutputBytes, rn.outLeft) \ {<<>>}, fatal \in BOOLEAN :
          /\ rn' = Uncaught(OnStdoutData([rn EXCEPT !.outLeft = @ - Len(chunk)], chunk),
                            fatal)
          /\ written' = written \o chunk
    /\ UNCHANGED <<sig, errWritten, notOutput>>

\* part_005:912  the process ends with the given code and its close event
\* is delivered.
OutputClose(code) ==
    /\ rn.live /\ ~rn.crashed /\ ~rn.closed
    /\ rn.proc = "running"
    /\ \E fatal \in BOOLEAN : rn' = Uncaught(OnClose(Exited(rn, code), code), fatal)
    /\ UNCHANGED <<sig, written, errWritten, notOutput>>

OutputNext ==
    \/ OutputStart
    \/ OutputData
    \/ \E code \in {0, 1} : OutputClose(code)

\* ------------------------------------------- the runner's activity buffer
\* Bound of the activity specification: the lines the process writes to
\* standard error, each of them an activity.
MaxErrLines == 122

\* Number.prototype.toString() of a natural number
RECURSIVE Decimal(_)
Decimal(n) == IF n < 10 THEN <<Digit(n)>> ELSE Decimal(n \div 10) \o <<Digit(n % 10)>>

\* The lines the process has written to standard error so far.
ErrLinesWritten(r) == Cardinality({k \in DOMAIN r.stderr : r.stderr[k] = NL})

\* The process numbers the lines it writes: the lines first..last.
RECURSIVE NumberedLines(_, _)
NumberedLines(first, last) ==
    IF first > last THEN <<>>
    ELSE Decimal(first) \o <<NL>> \o NumberedLines(first + 1, last)

\* part_005:902  the process writes its next one or two lines to standard
\* error and the stream hands them to the data handler as one chunk.
ErrLines ==
    /\ rn.live /\ ~rn.crashed /\ ~rn.closed
    /\ rn.proc = "running"
    /\ \E written_lines \in {ErrLinesWritten(rn)} :
          \E n \in 1..Min(2, MaxErrLines - written_lines) :
              rn' = OnStderrData(rn, NumberedLines(written_lines + 1, written_lines + n))
    /\ UNCHANGED <<sig, written, errWritten, notOutput>>

\* Bound of the specification of standard error: the bytes the process
\* writes to it.
MaxErrOutput == 4

\* The bytes the process writes to standard error: a letter, a blank, the
\* two bytes of e-acute and the line feed.
ErrBytes == {"e", " ", LeadByte, TrailByte, NL}

\* part_005:902  the process writes some bytes to standard error and the
\* stream hands them to the data handler as one chunk.
ErrData ==
    /\ rn.live /\ ~rn.crashed /\ ~rn.closed
    /\ rn.proc = "running"
    /\ Len(errWritten) < MaxErrOutput
    /\ \E chunk \in SeqsUpTo(ErrBytes, MaxErrOutput - Len(errWritten)) \ {<<>>} :
          /\ rn' = OnStderrData(rn, chunk)
          /\ errWritten' = errWritten \o chunk
    /\ UNCHANGED <<sig, written, notOutput>>

ErrNext ==
    \/ OutputStart
    \/ ErrData
    \/ \E code \in {0, 1} : OutputClose(code)

ActivityNext ==
    \/ OutputStart
    \/ ErrLines
    \/ \E code \in {0, 1} : OutputClose(code)

\* ------------------------------------------- createPlanModeStateManager
\* Bound of the plan-mode specification: operations of the manager.
MaxPlanOps == 3

\* part_000:34
PLAN_MODE_TOOL_NAMES == <<"subagents", "steer_subagent", "request_user_input", "set_plan">>

\* A PlanModeState: active and planFilePath ("" when undefined); the leaf
\* ids are left out.
PlanModeState(active, planFilePath) == [active |-> active, planFilePath |-> planFilePath]

\* part_006:185-190
CreateInactivePlanModeState == PlanModeState(FALSE, "")

\* A session entry: a plan-mode state entry with valid data (kind "state"),
\* one whose data is no PlanModeState ("invalid"), or another entry.
Entry(kind, data) == [kind |-> kind, data |-> data]

\* part_000:37-48  the data of the last state entry that holds a valid state
RECURSIVE GetLatestState(_)
GetLatestState(entries) ==
    IF entries = <<>> THEN CreateInactivePlanModeState
    ELSE IF Last(entries).kind = "state" THEN Last(entries).data
    ELSE GetLatestState(ButLast(entries))

\* The manager and its host: state, the host's active tools, the number of
\* calls of pi.setActiveTools and of pi.appendEntry.
Manager(state, tools, calls, entries) ==
    [state |-> state, tools |-> tools, calls |-> calls, entries |-> entries]

\* Synchronisation that always calls pi.setActiveTools.
SyncAlways(m) ==
    With(IF m.state.active
         THEN m.tools \o SelectSeq(PLAN_MODE_TOOL_NAMES,
                                   LAMBDA toolName : toolName \notin Range(m.tools))
         ELSE SelectSeq(m.tools, LAMBDA toolName : toolName \notin Range(PLAN_MODE_TOOL_NAMES)),
         LAMBDA nextTools :
            [m EXCEPT !.tools = nextTools, !.calls = @ + 1])

\* part_000:90-104  pi.setActiveTools(nextTools) makes nextTools the host's
\* list
SyncPlanModeTools(m) ==
    With(IF m.state.active
         THEN m.tools \o SelectSeq(PLAN_MODE_TOOL_NAMES,
                                   LAMBDA toolName : toolName \notin Range(m.tools))
         ELSE SelectSeq(m.tools, LAMBDA toolName : toolName \notin Range(PLAN_MODE_TOOL_NAMES)),
         LAMBDA nextTools :
            IF nextTools = m.tools THEN m
            ELSE [m EXCEPT !.tools = nextTools, !.calls = @ + 1])

\* part_000:138-143  (the banner is left out)
SetStateOf(m, nextState) ==
    SyncPlanModeTools([m EXCEPT !.state = nextState, !.entries = @ + 1])

\* part_000:145-159
StartPlanModeOf(m, planFilePath) == SetStateOf(m, PlanModeState(TRUE, planFilePath))

\* part_000:161-165
RefreshOf(m, entries) == SyncPlanModeTools([m EXCEPT !.state = GetLatestState(entries)])

\* The inputs of the plan-mode specification: the lists of tools the host
\* has, without repetitions; the states handed to setState; the entries of
\* the session a refresh finds.
HostTools == {"read", "bash", "set_plan", "subagents"}

HostToolLists ==
    {tools \in SeqsUpTo(HostTools, 3) : \A i, j \in DOMAIN tools : i # j => tools[i] # tools[j]}

PlanStates == {PlanModeState(TRUE, "/p"), PlanModeState(FALSE, "/p"), CreateInactivePlanModeState}

SessionEntries ==
    {<<>>,
     <<Entry("state", PlanModeState(TRUE, "/p"))>>,
     <<Entry("state", PlanModeState(TRUE, "/p")), Entry("state", PlanModeState(FALSE, "/p"))>>,
     <<Entry("state", PlanModeState(TRUE, "/p")), Entry("invalid", CreateInactivePlanModeState),
       Entry("message", CreateInactivePlanModeState)>>}

\* part_000:71-72  the manager is created
PlanInit ==
    /\ planState = CreateInactivePlanModeState
    /\ activeTools = <<"read", "bash">>
    /\ setToolsCalls = 0
    /\ appended = 0
    /\ planOps = 0

NowManager == Manager(planState, activeTools, setToolsCalls, appended)

ManagerBecomes(m) ==
    /\ planState' = m.state
    /\ activeTools' = m.tools
    /\ setToolsCalls' = m.calls
    /\ appended' = m.entries
    /\ planOps' = planOps + 1

\* The user or another extension changes the host's active tools.
HostSetsTools ==
    /\ \E tools \in HostToolLists : activeTools' = tools
    /\ UNCHANGED <<planState, setToolsCalls, appended, planOps, notPlan>>

\* part_000:145  manager.startPlanMode(ctx, options)
StartPlanMode ==
    /\ planOps < MaxPlanOps
    /\ ManagerBecomes(StartPlanModeOf(NowManager, "/p"))
    /\ UNCHANGED notPlan

\* part_000:138  manager.setState(ctx, nextState)
SetState ==
    /\ planOps < MaxPlanOps
    /\ \E nextState \in PlanStates :
          ManagerBecomes(SetStateOf(NowManager, nextState))
    /\ UNCHANGED notPlan

\* part_000:161  manager.refresh(ctx)
Refresh ==
    /\ planOps < MaxPlanOps
    /\ \E entries \in SessionEntries :
          ManagerBecomes(RefreshOf(NowManager, entries))
    /\ UNCHANGED notPlan

PlanNext ==
    \/ HostSetsTools
    \/ StartPlanMode
    \/ SetState
    \/ Refresh

\* ---------------------------------------------------------- specifications
\* Nothing has been called yet.
Init ==
    /\ SchedInit /\ RunnerInit /\ BatchInit /\ SteerInit /\ CallInit /\ OutputInit
    /\ PlanInit

\* runWithConcurrencyLimit on its own, with an arbitrary runner.
SpecSched == Init /\ [][SchedNext]_vars

\* One runSubagentTask invocation and its child process.
SpecRunner == Init /\ [][RunnerNext]_vars

\* The event loop runs a due timer and delivers a pending close or error
\* event; a process that SIGKILL was sent to ends.
FairSpecRunner ==
    /\ SpecRunner
    /\ WF_vars(TimerFire)
    /\ WF_vars(CloseEvent)
    /\ WF_vars(ErrorEvent)
    /\ WF_vars(ProcKilled)

\* One subagents.execute call, its worker processes and the registry.
SpecBatch == Init /\ [][BatchNext]_vars

\* Every worker process ends, the event loop delivers its close or error
\* event and runs a due timer.
FairSpecBatch ==
    /\ SpecBatch
    /\ WF_vars(\E i \in TaskIndexes, code \in {0, 1, NullCode} : BatchExit(i, code))
    /\ WF_vars(\E i \in TaskIndexes, env \in Envs : BatchClose(i, env))
    /\ WF_vars(\E i \in TaskIndexes, env \in Envs : BatchError(i, env))
    /\ WF_vars(\E i \in TaskIndexes : BatchTimer(i))

\* One subagents.execute call with worker processes that write nothing,
\* each seen from its end only.
SpecBatchQuiet == Init /\ [][BatchQuietNext]_vars

\* Calls of normalizeSubagentTasks and resolveSubagentConcurrency.
SpecCalls == Init /\ [][CallNext]_vars

\* One runSubagentTask invocation read from its standard output: the
\* chunks the process writes and its end.
SpecOutput == Init /\ [][OutputNext]_vars

\* One runSubagentTask invocation whose process writes lines to standard
\* error until it ends.
SpecActivities == Init /\ [][ActivityNext]_vars

\* One runner whose process writes to standard error only.
SpecStderr == Init /\ [][ErrNext]_vars

\* The plan-mode state manager under its operations, and a host whose
\* list of active tools changes.
SpecPlanMode == Init /\ [][PlanNext]_vars

\* The registry under batch runs that complete and steer calls.
SpecRegistry == Init /\ [][RegistryNext]_vars

\* ------------------------------------------------ claims on the scheduler
Occurrences(seq, x) == Cardinality({k \in DOMAIN seq : seq[k] = x})

\* Runner invocations that have started and not yet resolved.
ActiveRunners == Cardinality({w \in DOMAIN sched.workers : sched.workers[w].pc = "pending"})

\* max(1, min(floor(K), M)) for a numeric K: floor(+Infinity) is +Infinity,
\* floor(-Infinity) is -Infinity.
RequestedCap(c, n) ==
    CASE c.kind = "finite" -> Max(1, Min(c.halves \div 2, n))
      [] c.kind = "inf"    -> Max(1, n)
      [] OTHER             -> 1

\* C1: with M >= 1 tasks and a numeric requested concurrency K, at most
\* max(1, min(floor(K), M)) runner invocations are started and unresolved,
\* in every state of every interleaving of completions.
C1_ActiveAtMostLimit ==
    (schPhase = "active" /\ concurrency.kind # "nan")
        => ActiveRunners <= RequestedCap(concurrency, Len(items))

\* The cap binds: two of three tasks are running, the third is unclaimed.
C1_Witness ==
    /\ schPhase = "active"
    /\ Len(items) = 3
    /\ concurrency = [kind |-> "finite", halves |-> 5]
    /\ ActiveRunners = 2
    /\ sched.nextIndex = 2
    /\ Len(sched.doneLog) = 0

\* C2: for K in 1..4 and M >= 1 the call returns exactly M results, and the
\* result at position i is what the runner invocation for the item at input
\* position i resolved with, whatever the completion order.
C2_ResultsMatchInputOrder ==
    (/\ schPhase = "returned"
     /\ Len(items) >= 1
     /\ concurrency.kind = "finite"
     /\ concurrency.halves \in {2, 4, 6, 8})
        => /\ DOMAIN retval = 0..(Len(items) - 1)
           /\ \A i \in DOMAIN retval :
                /\ retval[i] # NoResult
                /\ retval[i] = sched.produced[i]
                /\ retval[i].item = items[i + 1]
                /\ retval[i].index = i

\* Three tasks with different items completed out of input order.
C2_Witness ==
    /\ schPhase = "returned"
    /\ items = <<"a", "b", "a">>
    /\ concurrency = [kind |-> "finite", halves |-> 4]
    /\ sched.doneLog = <<1, 0, 2>>
    /\ retval[0].out = "fail"
    /\ retval[1].out = "ok"

\* C3: no index is claimed by two worker loops or twice, the runner is
\* invoked at most once per index and each slot is written at most once; when
\* the call has returned, each of these happened exactly once per index.
C3_EachIndexClaimedOnce ==
    schPhase # "idle" =>
        \A i \in DOMAIN sched.results :
            /\ Cardinality(sched.claimedBy[i]) <= 1
            /\ Occurrences(sched.startLog, i) <= 1
            /\ sched.writes[i] <= 1
            /\ (schPhase = "returned" =>
                    /\ Cardinality(sched.claimedBy[i]) = 1
                    /\ Occurrences(sched.startLog, i) = 1
                    /\ sched.writes[i] = 1)

\* Two loops shared three tasks: loop 2 finished first and claimed the third.
C3_Witness ==
    /\ schPhase = "returned"
    /\ Len(items) = 3
    /\ Cardinality(DOMAIN sched.workers) = 2
    /\ sched.claimedBy[2] = {2}
    /\ sched.claimedBy[0] = {1}

\* ------------------------------------------------------ claims on the batch
\* The result of a task: it names the task, its prompt and the directory
\* the task was to run in, and carries an exit code.
WellFormedResult(task, result) ==
    /\ result.taskId = task.id
    /\ result.task = task.prompt
    /\ result.cwd = EffectiveCwd(task, DefaultCwd)
    /\ result.exitCode \in Nat
    /\ result.steeringNotes = <<>>

\* The call has returned one well-formed result per task, in task order,
\* and every task was run.
BatchCompleted ==
    /\ bt.phase = "returned"
    /\ bt.response.text = "summary"
    /\ bt.response.details.totalCount = Len(bt.tasks)
    /\ Len(bt.response.details.tasks) = Len(bt.tasks)
    /\ \A k \in DOMAIN bt.tasks :
          /\ WellFormedResult(bt.tasks[k], bt.response.details.tasks[k])
          /\ brn[k - 1].resolved
          /\ brn[k - 1].result = bt.response.details.tasks[k]

\* processLine threw out of a handler of some runner of the batch.
BatchThrew == \E i \in TaskIndexes : "throw" \in Range(brn[i].log)

\* C4: a batch run of M tasks eventually completes with one well-formed
\* TaskResult per task, whatever the outcomes of its tasks (exit code 0,
\* non-zero exit, failure to start, cancellation); no failure of a task keeps
\* the queued tasks from being run or the batch from returning.
C4_BatchCompletes == (bt.phase = "running") ~> BatchCompleted

\* What does hold: the only batches that do not complete are those in which
\* processLine threw out of a handler.
BatchCompletesUnlessThrow == (bt.phase = "running") ~> (BatchCompleted \/ BatchThrew)

\* One loop, two tasks: the first could not be started, the second was then
\* run and exited with code 0, and the batch returned both results.
BatchGoesOnAfterFailure ==
    /\ BatchCompleted
    /\ Cardinality(DOMAIN bt.sched.workers) = 1
    /\ bt.sched.doneLog = <<0, 1>>
    /\ bt.response.details.tasks[1].exitCode = 1
    /\ bt.response.details.tasks[1].stderr = ErrorMessage
    /\ bt.response.details.tasks[2].exitCode = 0
    /\ bt.response.details.successCount = 1
    /\ bt.response.isError
    /\ subagentRuns = <<bt.runId>>

\* The registry after k further batch runs have been stored in it.
RECURSIVE AfterFurtherRuns(_, _)
AfterFurtherRuns(reg, k) ==
    IF k = 0 THEN reg
    ELSE With(StoreRun(reg, CreateSubagentRunId(Len(reg.log) + 1), SampleResults),
              LAMBDA next : AfterFurtherRuns(next, k - 1))

\* A steer call made with this registry, naming the run and the task, finds
\* both and goes on to run the task.
SteerFinds(reg, runId, taskId) ==
    With(SteerUntilAwait(SteerState(<<SteerIdle>>, reg, <<>>, NoResponse), 1,
                         SteerParams(runId, taskId, SteerInstruction), TRUE, TRUE),
         LAMBDA st :
            /\ st.ss[1].phase = "running"
            /\ st.ss[1].runId = runId
            /\ reg.objs[runId].tasks[st.ss[1].taskIndex + 1].taskId = taskId
            /\ st.calls = <<taskId>>)

\* A steer of each of these tasks of the run finds it with this registry,
\* and after each of up to k further runs has been stored.
RECURSIVE FoundThrough(_, _, _, _)
FoundThrough(reg, k, runId, taskIds) ==
    /\ \A taskId \in taskIds : SteerFinds(reg, runId, taskId)
    /\ k > 0 => With(AfterFurtherRuns(reg, 1), LAMBDA next :
                    FoundThrough(next, k - 1, runId, taskIds))

\* C12: when a batch call has returned its results, the run is stored under
\* the run id it returned, with the results of all its tasks, whatever
\* their outcomes; and a steer that names the run id and the task id of any
\* of the results finds both, now and after up to 19 further runs have been
\* stored.
C12_RunStoredBeforeReturn ==
    (bt.phase = "returned" /\ bt.response.text = "summary") =>
        /\ bt.response.details.runId = bt.runId
        /\ Stored(subagentRuns, bt.runId)
        /\ runObjs[bt.runId].runId = bt.runId
        /\ runObjs[bt.runId].tasks = bt.response.details.tasks
        /\ Len(runObjs[bt.runId].tasks) = Len(bt.tasks)
        /\ With(Registry(subagentRuns, runObjs, insertLog), LAMBDA reg :
             With(Range(TaskIds(bt.response.details.tasks)), LAMBDA taskIds :
                FoundThrough(reg, MaxStoredRuns - 1, bt.runId, taskIds)))

\* A batch of two tasks has returned: the first task was cancelled and the
\* second could not be started. A steer of the second finds it after 19
\* further runs, and no longer finds the run after 20.
C12_Witness ==
    /\ bt.phase = "returned" /\ bt.response.text = "summary"
    /\ Len(bt.tasks) = 2
    /\ bt.response.details.tasks[1].stderr = <<"aborted">>
    /\ bt.response.details.tasks[2].stderr = ErrorMessage
    /\ bt.response.details.successCount = 0
    /\ subagentRuns = <<bt.runId>>
    /\ With(AfterFurtherRuns(Registry(subagentRuns, runObjs, insertLog), 19),
            LAMBDA reg :
               /\ SteerFinds(reg, bt.runId, bt.tasks[2].id)
               /\ With(AfterFurtherRuns(reg, 1), LAMBDA later :
                        /\ ~Stored(later.keys, bt.runId)
                        /\ ~SteerFinds(later, bt.runId, bt.tasks[2].id)))

\* The concurrency is given and is not one of the integers 1 to 4.
OutOfRange(value) ==
    /\ value.kind # "undefined"
    /\ ~(value.kind = "finite" /\ \E n \in 1..4 : value.halves = 2 * n)

\* C17: a batch request whose concurrency is rejected returns an error at
\* once (in plan mode the error about the concurrency): no runner is
\* invoked, so no worker process is spawned, no progress is emitted, no run
\* id is made and the registry stays as it was, empty.
C17_RejectedConcurrency ==
    (bt.phase # "idle" /\ OutOfRange(bt.params.concurrency)) =>
        /\ bt.phase = "returned"
        /\ bt.response.isError
        /\ bt.response.details = NoDetails
        /\ bt.params.active => bt.response.text = "concurrency"
        /\ bt.emitted = 0
        /\ bt.runId = NoRunId
        /\ \A i \in TaskIndexes : brn[i] = RunnerIdle
        /\ subagentRuns = <<>> /\ insertLog = <<>> /\ DOMAIN runObjs = {}

\* A batch was rejected for its concurrency: nothing was started or stored.
C17_Witness ==
    /\ bt.phase = "returned"
    /\ bt.params = BatchParams([kind |-> "finite", halves |-> 10], TRUE)
    /\ bt.response = Response(TRUE, "concurrency", <<>>, NoDetails)
    /\ bt.emitted = 0
    /\ \A i \in TaskIndexes : brn[i] = RunnerIdle
    /\ subagentRuns = <<>> /\ insertLog = <<>> /\ DOMAIN runObjs = {}

\* ------------------------------------------ claims on normalizeSubagentTasks
\* The call made was of normalizeSubagentTasks.
Normalized == lastCall.fn = "normalizeSubagentTasks"

\* What is left of a caller's id: trimmed, in lower case, runs of other
\* characters made one dash, dashes and underscores stripped from the ends.
Slug(rawId) == StripEdges(CollapseDashes(ReplaceOther(LowerCase(Trim(rawId)))))

\* The ids assigned to the tasks before position k.
AssignedBefore(out, k) == {out[j].id : j \in 1..(k - 1)}

\* base-n
Suffixed(base, n) == base \o <<"-", Digit(n)>>

\* id is base if no earlier task has it, else base-n for the smallest n
\* from 2 on that no earlier task has.
FirstFree(id, base, earlier) ==
    IF base \notin earlier THEN id = base
    ELSE \E n \in 2..9 :
            /\ id = Suffixed(base, n)
            /\ id \notin earlier
            /\ \A m \in 2..(n - 1) : Suffixed(base, m) \in earlier

\* C13: normalizeSubagentTasks returns as many tasks as it was given, in
\* the order given, each with the prompt and the working directory of its
\* input, and the ids are not empty and differ from one another.
C13_NormalizeKeepsTasks ==
    Normalized =>
        /\ Len(lastCall.ret) = Len(lastCall.arg)
        /\ \A k \in DOMAIN lastCall.arg :
              /\ lastCall.ret[k].prompt = lastCall.arg[k].prompt
              /\ lastCall.ret[k].cwd = lastCall.arg[k].cwd
              /\ lastCall.ret[k].id # <<>>
        /\ \A j, k \in DOMAIN lastCall.ret : j # k => lastCall.ret[j].id # lastCall.ret[k].id

\* Three tasks whose ids all come to a: they are a, a-2 and a-3, with the
\* prompts and directories in the order given.
C13_Witness ==
    /\ Normalized
    /\ lastCall.arg = <<RawTask(<<"a">>, "p", <<>>), RawTask(<<"A", " ">>, "q", <<"/w">>),
                        RawTask(<<"A", " ">>, "p", <<>>)>>
    /\ lastCall.ret = <<NormalizedTask(<<"a">>, "p", <<>>),
                        NormalizedTask(<<"a", "-", "2">>, "q", <<"/w">>),
                        NormalizedTask(<<"a", "-", "3">>, "p", <<>>)>>

\* The id task-i
TaskNumbered(i) == <<"t", "a", "s", "k", "-", Digit(i)>>

\* C14 (as claimed): a task without an id, or with an id of which nothing
\* is left, at position i is given the id task-i, whatever the batch.
C14_AsClaimed ==
    Normalized =>
        \A k \in DOMAIN lastCall.arg :
            Slug(lastCall.arg[k].id) = <<>> => lastCall.ret[k].id = TaskNumbered(k)

\* C14 (amended): such a task is given the id task-i when no earlier task
\* of the batch has been given that id, else task-i-n for the smallest n
\* from 2 on that no earlier task has.
C14_FallbackId ==
    Normalized =>
        \A k \in DOMAIN lastCall.arg :
            Slug(lastCall.arg[k].id) = <<>> =>
                /\ TaskNumbered(k) \notin AssignedBefore(lastCall.ret, k)
                      => lastCall.ret[k].id = TaskNumbered(k)
                /\ FirstFree(lastCall.ret[k].id, TaskNumbered(k),
                             AssignedBefore(lastCall.ret, k))

\* The first task is called task-2 by its caller and the second has no id:
\* the second is task-2-2; the third, of whose id nothing is left, is task-3.
C14_Witness ==
    /\ Normalized
    /\ Len(lastCall.arg) = 3
    /\ lastCall.arg[1].id = <<"t", "a", "s", "k", "-", "2">>
    /\ lastCall.arg[2].id = <<>>
    /\ lastCall.arg[3].id = <<"_", " ", "-">>
    /\ lastCall.ret[2].id = <<"t", "a", "s", "k", "-", "2", "-", "2">>
    /\ lastCall.ret[3].id = <<"t", "a", "s", "k", "-", "3">>

\* C15: a task of whose id something is left is given that slug when no
\* earlier task of the call has been given it, else slug-n for the smallest
\* n from 2 on such that no earlier task has been given slug-n.
C15_CollisionSuffix ==
    Normalized =>
        \A k \in DOMAIN lastCall.arg :
            Slug(lastCall.arg[k].id) # <<>> =>
                FirstFree(lastCall.ret[k].id, Slug(lastCall.arg[k].id),
                          AssignedBefore(lastCall.ret, k))

\* The caller's a-2 comes first, then a twice: the second a finds a and a-2
\* taken and is a-3.
C15_Witness ==
    /\ Normalized
    /\ Len(lastCall.arg) = 3
    /\ lastCall.arg[1].id = <<"a", "-", "2">>
    /\ lastCall.arg[2].id = <<"a">>
    /\ lastCall.arg[3].id = <<"A", " ">>
    /\ lastCall.ret[1].id = <<"a", "-", "2">>
    /\ lastCall.ret[2].id = <<"a">>
    /\ lastCall.ret[3].id = <<"a", "-", "3">>

\* --------------------------------------- claims on resolveSubagentConcurrency
\* C16: resolveSubagentConcurrency returns 2 for no value, the value for an
\* integer from 1 to 4, and null (the model's 0) for every other value: a
\* fraction, a number below 1 or above 4, NaN and the infinities.
C16_ConcurrencyResolved ==
    lastCall.fn = "resolveSubagentConcurrency" =>
        lastCall.ret =
            (IF lastCall.arg.kind = "undefined" THEN 2
             ELSE IF /\ lastCall.arg.kind = "finite"
                     /\ \E n \in 1..4 : lastCall.arg.halves = 2 * n
                  THEN lastCall.arg.halves \div 2
             ELSE 0)

\* The value 5 was rejected.
C16_Witness ==
    /\ lastCall.fn = "resolveSubagentConcurrency"
    /\ lastCall.arg = [kind |-> "finite", halves |-> 10]
    /\ lastCall.ret = 0

\* ------------------------------------------------- claims on the registry
\* The last n entries of seq.
LastN(seq, n) == SubSeq(seq, Max(1, Len(seq) - n + 1), Len(seq))

\* C8: the registry never holds more than 20 records, and once more than 20
\* distinct run ids have been inserted the ids that can be retrieved are
\* exactly the 20 inserted last; no id inserted before them can be.
C8_RegistryKeepsNewest ==
    /\ Len(subagentRuns) <= 20
    /\ Cardinality(Range(subagentRuns)) = Len(subagentRuns)
    /\ subagentRuns = LastN(insertLog, 20)
    /\ Cardinality(Range(insertLog)) > 20 =>
          /\ Cardinality(Range(LastN(insertLog, 20))) = 20
          /\ \A id \in Range(insertLog) :
                Stored(subagentRuns, id) <=> id \in Range(LastN(insertLog, 20))

\* 21 runs were stored, which evicted the first; a steer of the first run
\* that was under way then stored it again, which evicted the second.
C8_Witness ==
    /\ Len(insertLog) = 22
    /\ insertLog[22] = CreateSubagentRunId(1)
    /\ insertLog[21] = CreateSubagentRunId(21)
    /\ Len(subagentRuns) = 20
    /\ Stored(subagentRuns, CreateSubagentRunId(1))
    /\ ~Stored(subagentRuns, CreateSubagentRunId(2))

\* ----------------------------------------------------- claims on steering
\* Steer call s is made in this step.
CallStep(s) == steers[s].phase = "idle" /\ steers'[s].phase # "idle"

\* The runSubagentTask invocation of steer call s resolves in this step.
ResolveStep(s) == steers[s].phase = "running" /\ steers'[s].phase = "done"

\* What a request names.
Names(params) ==
    [runId |-> Trim(params.runId), taskId |-> Trim(params.taskId),
     instruction |-> Trim(params.instruction)]

\* The steer requests, each with what it names.
NamedRequests == {[request |-> r, names |-> Names(r.params)] : r \in SteerRequests}

\* The request names a run id that is not in the registry, or a run that is
\* and a task id that no task of that run has.
NamesUnknownRun(n) == n.runId # <<>> /\ ~Stored(subagentRuns, n.runId)

NamesUnknownTask(n) ==
    /\ n.taskId # <<>>
    /\ Stored(subagentRuns, n.runId)
    /\ \A k \in DOMAIN runObjs[n.runId].tasks : runObjs[n.runId].tasks[k].taskId # n.taskId

\* Steer call s returns an error that lists the known run ids, or the task
\* ids of the run, no runner is invoked and the registry stays as it is.
Rejected(s, n) ==
    /\ steers'[s].phase = "done"
    /\ lastResponse'.isError
    /\ NamesUnknownRun(n) =>
          /\ lastResponse'.text \in {"unknown run", "no runs"}
          /\ lastResponse'.known = subagentRuns
    /\ NamesUnknownTask(n) =>
          /\ lastResponse'.text = "unknown task"
          /\ lastResponse'.known =
                [k \in DOMAIN runObjs[n.runId].tasks |-> runObjs[n.runId].tasks[k].taskId]
    /\ runnerCalls' = runnerCalls
    /\ \A t \in DOMAIN steers : t # s => steers'[t] = steers[t]
    /\ UNCHANGED <<subagentRuns, runObjs, insertLog>>

\* C9 (as claimed): every steer request that names an unknown run id, or an
\* unknown task id of a stored run, is rejected with the list of known ids.
C9_AsClaimed ==
    [][\A s \in DOMAIN steers : CallStep(s) =>
          \A r \in NamedRequests :
             (/\ NamesUnknownRun(r.names) \/ NamesUnknownTask(r.names)
              /\ SteerCall(s, r.request.params, r.request.active, r.request.spawns))
                 => Rejected(s, r.names)]_vars

\* C9 (amended): a steer request made while plan mode is active, with a
\* run id, a task id and an instruction that are not blank, which names an
\* unknown run id or an unknown task id of a stored run, is rejected with
\* the list of the known run ids, respectively of the run's task ids; no
\* runner is invoked, and the stored run ids and every run record stay as
\* they are.
C9_RejectedSteerChangesNothing ==
    [][\A s \in DOMAIN steers : CallStep(s) =>
          \A r \in NamedRequests :
             (/\ r.request.active
              /\ r.names.runId # <<>>
              /\ r.names.taskId # <<>>
              /\ r.names.instruction # <<>>
              /\ NamesUnknownRun(r.names) \/ NamesUnknownTask(r.names)
              /\ SteerCall(s, r.request.params, r.request.active, r.request.spawns))
                 => Rejected(s, r.names)]_vars

\* A steer of the first run after 21 runs were stored: the run is gone, the
\* error lists the 20 runs that are stored, no runner was ever invoked.
C9_Witness ==
    /\ lastResponse.text = "unknown run"
    /\ lastResponse.known = subagentRuns
    /\ Len(subagentRuns) = 20
    /\ ~Stored(subagentRuns, CreateSubagentRunId(1))
    /\ steers[1].phase = "done"
    /\ runnerCalls = <<>>

\* C10: a steer whose run and task were found invokes the runner once, for
\* that task; when the invocation resolves, its result takes the place of
\* the task's result in the run and nothing else changes: the other tasks'
\* results, the number and order of the tasks, the task's id, prompt and
\* working directory, and every other run.
C10_SteerReplacesOnlyItsTask ==
    [][\A s \in DOMAIN steers :
          /\ (CallStep(s) /\ steers'[s].phase = "running") =>
                /\ steers'[s].rn.live
                /\ steers'[s].rn.task.id = steers'[s].taskId
                /\ runnerCalls' = Append(runnerCalls, steers'[s].taskId)
                /\ UNCHANGED <<subagentRuns, runObjs, insertLog>>
          /\ ResolveStep(s) =>
                LET id == steers[s].runId
                    i == steers[s].taskIndex + 1
                    old == runObjs[id].tasks
                    new == runObjs'[id].tasks
                IN  /\ runnerCalls' = runnerCalls
                    /\ old[i].taskId = steers[s].taskId
                    /\ DOMAIN new = DOMAIN old
                    /\ \A k \in DOMAIN old : k # i => new[k] = old[k]
                    /\ new[i].taskId = old[i].taskId
                    /\ new[i].task = old[i].task
                    /\ new[i].cwd = old[i].cwd
                    /\ new[i] = Finish(steers[s].rn, "exit0").result
                         \/ new[i] = Finish(steers[s].rn, "exit1").result
                         \/ new[i] = Finish(steers[s].rn, "cancelled").result
                    /\ lastResponse'.details.tasks = new
                    /\ \A other \in DOMAIN runObjs :
                          other # id => runObjs'[other] = runObjs[other]]_vars

\* Both tasks of the first run were steered, the calls overlapping: each
\* result took the place of its own task's.
C10_Witness ==
    /\ steers[1].phase = "done" /\ steers[2].phase = "done"
    /\ runnerCalls = <<SampleTasks[2].id, SampleTasks[1].id>>
    /\ lastResponse.text = "steered"
    /\ LET tasks == runObjs[CreateSubagentRunId(1)].tasks
       IN  /\ Len(tasks) = 2
           /\ tasks[1].taskId = SampleTasks[1].id
           /\ tasks[2].taskId = SampleTasks[2].id
           /\ tasks[1].steeringNotes = <<<<"i">>>>
           /\ tasks[2].steeringNotes = <<<<"i">>>>
           /\ tasks[1].exitCode = 1
           /\ tasks[2].exitCode = 0
           /\ tasks[1].cwd = DefaultCwd
           /\ tasks[2].cwd = <<"/w">>

\* The tasks of the run that steer call s holds, and the place of its task.
HeldTasks(s) == runObjs[steers[s].runId].tasks

HeldPlace(s) == steers[s].taskIndex + 1

\* C11: when a steer of task T completes, the notes stored for T are the
\* notes that were stored for T just before, followed by the instruction of
\* this steer, so no instruction of an earlier completed steer is lost,
\* whether or not the steers overlapped.
C11_NotesAccumulate ==
    [][\A s \in DOMAIN steers : ResolveStep(s) =>
          runObjs'[steers[s].runId].tasks[HeldPlace(s)].steeringNotes
             = Append(HeldTasks(s)[HeldPlace(s)].steeringNotes,
                      Last(steers[s].rn.notes))]_vars

\* What the code does: the notes stored by a steer are the notes that were
\* stored for the task when the steer was called, followed by its
\* instruction.
NotesAreThoseOfCallTime ==
    [][\A s \in DOMAIN steers :
          /\ (CallStep(s) /\ steers'[s].phase = "running") =>
                \E r \in NamedRequests :
                    /\ r.names.taskId = steers'[s].taskId
                    /\ steers'[s].rn.notes
                          = Append(runObjs[steers'[s].runId]
                                      .tasks[steers'[s].taskIndex + 1].steeringNotes,
                                   r.names.instruction)
          /\ ResolveStep(s) =>
                runObjs'[steers[s].runId].tasks[HeldPlace(s)].steeringNotes
                   = steers[s].rn.notes]_vars

\* Two steers of the second task of the first run, with the instructions i
\* and j, have both completed, and the notes stored for the task hold j
\* alone.
NoteLost ==
    /\ steers[1].phase = "done" /\ steers[2].phase = "done"
    /\ runnerCalls = <<SampleTasks[2].id, SampleTasks[2].id>>
    /\ runObjs[CreateSubagentRunId(1)].tasks[2].steeringNotes = <<<<"j">>>>

\* --------------------------------------------------- claims on the runner
\* The first position of x in seq, 0 when it does not occur.
IndexOf(seq, x) ==
    IF x \in Range(seq) THEN MinOf({k \in DOMAIN seq : seq[k] = x}) ELSE 0

\* The cancellation signal reached the runner while its process was running:
\* the abort listener ran and its SIGTERM was delivered.
AbortedWhileRunning == rn.abortRequested /\ "SIGTERM" \in Range(rn.sigLog)

\* C5: once the cancellation signal has been delivered to a runner whose
\* process is running, the runner eventually resolves its TaskResult.
C5_AbortLeadsToResult == AbortedWhileRunning ~> rn.resolved

\* What does hold: the only runs in which a cancelled runner stays
\* unresolved are those in which processLine threw out of a handler.
AbortLeadsToResultUnlessThrow ==
    AbortedWhileRunning ~> (rn.resolved \/ "throw" \in Range(rn.log))

\* The process ignored SIGTERM, was killed when the grace timer fired, and
\* the close that followed resolved the task.
ForcedKillResolves ==
    /\ rn.resolved
    /\ rn.log = <<"spawn", "abort", "SIGTERM", "timer", "SIGKILL", "exit", "close">>

\* C6: SIGKILL is sent only after SIGTERM was sent and the grace timer then
\* fired with the process still not ended; when the process ends before the
\* timer fires, SIGKILL is never sent.
C6_KillOnlyAfterGrace ==
    /\ "SIGKILL" \in Range(rn.log) =>
          /\ 0 < IndexOf(rn.log, "SIGTERM")
          /\ IndexOf(rn.log, "SIGTERM") < IndexOf(rn.log, "timer")
          /\ IndexOf(rn.log, "timer") < IndexOf(rn.log, "SIGKILL")
          /\ IndexOf(rn.log, "exit") \notin 1..IndexOf(rn.log, "SIGKILL")
    /\ ("exit" \in Range(rn.log) /\ "timer" \notin SubSeqSet(rn.log, IndexOf(rn.log, "exit")))
          => "SIGKILL" \notin Range(rn.log)
    /\ Occurrences(rn.log, "SIGKILL") <= 1

\* The process ignored SIGTERM for the whole grace period and SIGKILL was
\* sent when the timer fired.
C6_Witness ==
    rn.log = <<"spawn", "abort", "SIGTERM", "timer", "SIGKILL">>

\* C7 (as claimed): when cancellation was requested while the process was
\* running, the resolved TaskResult has a non-zero exit code and the error
\* text "aborted".
C7_AbortedIsFailure ==
    (rn.resolved /\ AbortedWhileRunning /\ IndexOf(rn.log, "abort") < IndexOf(rn.log, "exit"))
        => /\ rn.result.exitCode # 0
           /\ rn.result.stderr = <<"aborted">>

\* ------------------------------------------- claims on the runner's output
\* The documents of an output: the whole of it decoded, its lines parsed.
DocumentsOf(bytes) ==
    With(SplitLines(BufferToString(bytes)), LAMBDA lines :
        [k \in DOMAIN lines |-> JsonParse(lines[k])])

IsAssistantMessage(doc) == doc.type = "message_end" /\ doc.role = "assistant"

\* The texts of the text items of a document of the assistant.
TextItems(doc) ==
    IF ~IsAssistantMessage(doc) THEN <<>>
    ELSE With(SelectSeq(doc.content, LAMBDA b : b.type = "text"), LAMBDA texts :
            [k \in DOMAIN texts |-> texts[k].text])

RECURSIVE AllTextItems(_)
AllTextItems(docs) ==
    IF docs = <<>> THEN <<>> ELSE TextItems(Head(docs)) \o AllTextItems(Tail(docs))

\* The last of some texts, blanks around it removed; empty when there is none.
LastText(texts) == IF texts = <<>> THEN <<>> ELSE Trim(Last(texts))

\* The text of each message of the assistant: its text items, one per line.
MessageTexts(docs) ==
    With(SelectSeq(docs, IsAssistantMessage), LAMBDA messages :
        [k \in DOMAIN messages |-> Trim(JoinLines(TextItems(messages[k])))])

\* The close event has resolved the task.
ResolvedByClose == rn.live /\ rn.resolved /\ rn.closed

OutputRead == ResolvedByClose /\ written # <<>>

\* C18: the output of a task's result is the text of the last text item the
\* assistant emitted, never several text items put together.
C18_OutputIsLastTextItem ==
    OutputRead => rn.result.output = LastText(AllTextItems(DocumentsOf(written)))

\* A message with two text items has resolved to both, one per line.
OutputJoinsTextItems ==
    /\ OutputRead
    /\ written = <<"c", NL>>
    /\ rn.result.output = TextA \o <<NL>> \o TextB

\* A line after the document null, in the same chunk, was never read.
OutputAfterNullLost ==
    /\ OutputRead
    /\ written = <<"n", NL, "a", NL>>
    /\ rn.result.output = <<>>

\* No handler has thrown and no character was split between two chunks.
ReadWhole ==
    /\ "throw" \notin Range(rn.log)
    /\ \A k \in DOMAIN written : written[k] \notin {LeadByte, TrailByte}

\* When every line was read whole, the output is the text of the last
\* message of the assistant that has text.
OutputIsLastMessageText ==
    (OutputRead /\ ReadWhole) =>
        rn.result.output =
            LastText(SelectSeq(MessageTexts(DocumentsOf(written)), LAMBDA t : t # <<>>))

\* The runner had its process written all the bytes in one chunk and then
\* ended with the given code, the host outliving what its handlers throw.
ReadAtOnce(bytes, code) ==
    With(IF bytes = <<>> THEN OutputStarted
         ELSE Uncaught(OnStdoutData(OutputStarted, bytes), FALSE), LAMBDA r1 :
        Uncaught(OnClose(Exited(r1, code), code), FALSE))

\* What a runner has made of its output: its activities, whether its task
\* is resolved and the output of its result.
Reading(r) ==
    [activities |-> r.activities, resolved |-> r.resolved, output |-> r.result.output]

OutputClosed == rn.live /\ rn.closed /\ ~rn.crashed /\ written # <<>>

\* C19: the activities and the final output of a runner depend on the bytes
\* written to standard output only, not on the chunks they arrived in.
C19_ChunkingIrrelevant ==
    OutputClosed => Reading(rn) = Reading(ReadAtOnce(written, rn.exitCode))

\* The two bytes of one character arrived in two chunks and the output holds
\* two U+FFFD in its place.
SplitCharacterReplaced ==
    /\ OutputRead
    /\ written = <<LeadByte, TrailByte, NL>>
    /\ rn.result.output = <<Replacement, Replacement>>
    /\ ReadAtOnce(written, rn.exitCode).result.output = <<Eacute>>

\* The line after the document null was read, as it arrived in a chunk of
\* its own; in one chunk with the null it is not.
LineAfterNullRead ==
    /\ OutputRead
    /\ written = <<"n", NL, "a", NL>>
    /\ rn.result.output = TextA
    /\ ReadAtOnce(written, rn.exitCode).result.output = <<>>

\* When every line was read whole, by the runner and in one chunk, the
\* chunks do not matter.
ChunkingIrrelevantWhenWhole ==
    (OutputClosed /\ ReadWhole /\ "n" \notin Range(written)) =>
        Reading(rn) = Reading(ReadAtOnce(written, rn.exitCode))

\* An unterminated last line is read once, at close.
LastLineReadAtClose ==
    (OutputRead /\ written = <<"a", NL, "c">>) =>
        /\ rn.assistantOutputs = <<TextA, TextA \o <<NL>> \o TextB>>
        /\ rn.stdoutBuffer = <<"c">>

\* A line the runner has an event for: a message of the assistant or the
\* result of a tool.
Recognized(line) ==
    With(JsonParse(line), LAMBDA doc :
        IsAssistantMessage(doc) \/ doc.type = "tool_result_end")

\* The bytes the process has written in this step.
ChunkWritten == SubSeq(written', Len(written) + 1, Len(written'))

\* The lines this step's chunk has completed.
LinesCompleted == ButLast(SplitLines(rn.stdoutBuffer \o BufferToString(ChunkWritten)))

DataStep == rn.live /\ written' # written

CloseStep == rn.live /\ ~rn.closed /\ rn'.closed

\* What the lines read so far have left: the activities and the candidates
\* for the output.
Candidates(r) == [activities |-> r.activities, assistantOutputs |-> r.assistantOutputs]

\* The runner is as far as before: not resolved, no handler has failed.
GoesOn(r) == ~r.resolved /\ ~r.crashed /\ "throw" \notin Range(r.log)

\* A chunk whose lines are recognized or of the given kind leaves what its
\* recognized lines alone leave, and a last line of the given kind leaves
\* the task to resolve at close.
IgnoresLines(ignored(_)) ==
    /\ (/\ DataStep /\ GoesOn(rn)
        /\ \A k \in DOMAIN LinesCompleted :
              Recognized(LinesCompleted[k]) \/ ignored(LinesCompleted[k])) =>
         /\ GoesOn(rn')
         /\ Candidates(rn') =
                Candidates(ProcessLines(rn, SelectSeq(LinesCompleted, Recognized)))
    /\ (CloseStep /\ GoesOn(rn) /\ ignored(rn.stdoutBuffer)) =>
         /\ rn'.resolved /\ ~rn'.crashed
         /\ rn'.result.output = LastText(rn.assistantOutputs)

Unrecognized(line) == ~Recognized(line)

UnrecognizedNotNull(line) == ~Recognized(line) /\ JsonParse(line).type # "null"

\* C20: a line that is not valid JSON, or is a document of a shape the
\* runner has no event for, changes neither the activities nor the
\* candidates for the output, neither fails nor resolves the task, and the
\* lines after it are read as usual.
C20_UnrecognizedLineIgnored == [][IgnoresLines(Unrecognized)]_vars

\* The same of the lines that are not the document null.
OtherLinesIgnored == [][IgnoresLines(UnrecognizedNotNull)]_vars

\* The document null on a line has ended the host or left a handler by an
\* exception.
NullLineThrew ==
    /\ rn.live
    /\ written = <<"n", NL>>
    /\ "throw" \in Range(rn.log)

\* Lines that are not recognized have been read, a message among them, and
\* the task has resolved to the message.
UnrecognizedLinesPassed ==
    /\ OutputRead /\ "throw" \notin Range(rn.log)
    /\ written \in {<<"j", NL, "a", "u">>, <<"u", TrailByte, NL, "a">>}
    /\ rn.result.output = TextA

\* ---------------------------------------- claims on the activity buffer
\* Every activity the runner has recorded, in recording order: the start,
\* one for each line of standard error, and the end once it is closed.
AllRecorded(r) ==
    With(ErrLinesWritten(r), LAMBDA n :
        [j \in 1..(n + 1 + (IF r.closed THEN 1 ELSE 0)) |->
            IF j = 1 THEN [kind |-> "status", text |-> <<"started">>]
            ELSE IF j <= n + 1 THEN [kind |-> "stderr", text |-> Decimal(j - 1)]
            ELSE [kind |-> "status",
                  text |-> <<"finished with exit code ", CodeText(ExitCodeOf(r.exitCode))>>]])

\* C21: the activity buffer of a runner holds at most 120 entries, and
\* they are the most recently recorded ones in recording order.
C21_BufferKeepsNewest ==
    rn.live =>
        /\ Len(rn.activities) <= 120
        /\ rn.activities = LastN(AllRecorded(rn), 120)

\* More than 120 activities have been recorded and the first are dropped.
C21_Witness ==
    /\ rn.live /\ rn.closed
    /\ rn.actCount = 123
    /\ Len(rn.activities) = 120
    /\ rn.activities[1] = [kind |-> "stderr", text |-> <<"3">>]
    /\ rn.result.activities = rn.activities

\* ------------------------------------------- claims on a failure to start
\* spawn could not start the process and the error event has come.
FailedToStart == rn.live /\ rn.proc = "spawnfail" /\ rn.errorSeen

FailureActivity == [kind |-> "stderr", text |-> ErrorMessage]

StartActivity == [kind |-> "status", text |-> <<"started">>]

\* The activities of a cancellation.
CancelActivities ==
    {[kind |-> "status", text |-> <<"aborting">>],
     [kind |-> "status", text |-> <<"forcing termination">>]}

\* The result but for its activities: exit code 1, the error message for
\* stderr, no output and no references.
FailureResult(result) ==
    /\ result.exitCode = 1
    /\ result.stderr = ErrorMessage
    /\ result.output = <<>>
    /\ result.references = <<>>

\* C22 as stated: when the process fails to start the runner resolves at
\* once, exit code non-zero, the error message for stderr, no output, no
\* references, and no activity but the failure.
C22_AsClaimed ==
    FailedToStart =>
        /\ rn.resolved
        /\ FailureResult(rn.result)
        /\ rn.result.activities = <<FailureActivity>>

\* The error event of a failed start is handled in this step.
ErrorStep == rn.live /\ rn.proc = "spawnfail" /\ ~rn.errorSeen /\ rn'.errorSeen

\* C22, amended: the error event of a failed start resolves the task in the
\* same step, exit code 1, the error message for stderr, no output, no
\* references; the activities are the start, then those of a cancellation
\* that came before the error event, then the failure.
C22_StartFailure ==
    [][ErrorStep =>
        /\ ~rn.resolved /\ rn'.resolved
        /\ FailureResult(rn'.result)
        /\ With(rn'.result.activities, LAMBDA acts :
              /\ Len(acts) >= 2
              /\ Head(acts) = StartActivity
              /\ Last(acts) = FailureActivity
              /\ \A k \in 2..(Len(acts) - 1) : acts[k] \in CancelActivities
              /\ (Len(acts) > 2) => rn.abortRequested)]_vars

\* A start that failed under a signal that was aborted: three activities.
C22_Witness ==
    /\ FailedToStart /\ rn.resolved
    /\ rn.result.activities =
          <<StartActivity, [kind |-> "status", text |-> <<"aborting">>], FailureActivity>>

\* ------------------------------------------ claims on extractReferences
Extracted == lastCall.fn = "extractReferences"

\* The words of a text: its runs of characters that are not whitespace.
RECURSIVE WordsOf(_)
WordsOf(t) ==
    With(TrimLeft(t), LAMBDA rest :
        IF rest = <<>> THEN <<>>
        ELSE With(WordEnd(rest, 1), LAMBDA end :
                <<SubSeq(rest, 1, end)>> \o WordsOf(SubSeq(rest, end + 1, Len(rest)))))

\* The URL of a word: from its first scheme that something follows to its
\* end, the punctuation at the end taken off; empty when it has none.
UrlOf(word) ==
    With({k \in 1..(Len(word) - 1) : word[k] = "H"}, LAMBDA starts :
        IF starts = {} THEN <<>>
        ELSE StripUrlPunct(SubSeq(word, MinOf(starts), Len(word))))

\* The URLs of a text, one for each word that has one, in order.
UrlsOf(t) ==
    With(WordsOf(t), LAMBDA words :
        SelectSeq([k \in DOMAIN words |-> UrlOf(words[k])], LAMBDA u : u # <<>>))

\* Each URL of the text once, at the place of its first occurrence.
DistinctInOrder(urls, refs) ==
    /\ Range(refs) = Range(urls)
    /\ \A i, j \in DOMAIN refs : i # j => refs[i] # refs[j]
    /\ \A i, j \in DOMAIN refs :
          i < j => MinOf({k \in DOMAIN urls : urls[k] = refs[i]})
                     < MinOf({k \in DOMAIN urls : urls[k] = refs[j]})

\* C23: extractReferences returns each distinct URL of the text, the
\* punctuation after it taken off, once and in the order of first
\* occurrence, and extracting again from the URLs it returned, joined by
\* blanks, returns the same list.
C23_ReferencesIdempotent ==
    Extracted =>
        /\ DistinctInOrder(UrlsOf(lastCall.arg), lastCall.ret)
        /\ ExtractReferences(JoinWords(lastCall.ret)) = lastCall.ret

\* The first half of it.
ReferencesDistinctInOrder ==
    Extracted => DistinctInOrder(UrlsOf(lastCall.arg), lastCall.ret)

\* The second half, when no returned reference is the bare scheme.
IdempotentOnUrls ==
    (Extracted /\ <<"H">> \notin Range(lastCall.ret)) =>
        ExtractReferences(JoinWords(lastCall.ret)) = lastCall.ret

\* The same URL twice and another one: two references, in first-seen order.
ReferencesDeduped ==
    /\ Extracted
    /\ lastCall.arg = <<"H", "b", " ", "H", "a", ".", " ", "H", "b">>
    /\ lastCall.ret = << <<"H", "b">>, <<"H", "a">> >>

\* The scheme followed by a full stop only: the scheme is returned, and
\* nothing is extracted from it.
SchemeReturned ==
    /\ Extracted
    /\ lastCall.arg = <<"H", ".">>
    /\ lastCall.ret = << <<"H">> >>
    /\ ExtractReferences(JoinWords(lastCall.ret)) = <<>>

\* ------------------------------------- claims on buildSubagentRunDetails
DetailsBuilt == lastCall.fn = "buildSubagentRunDetails"

\* The results of a list that have exit code 0, counted one by one.
RECURSIVE Successes(_)
Successes(results) ==
    IF results = <<>> THEN 0
    ELSE (IF Head(results).exitCode = 0 THEN 1 ELSE 0) + Successes(Tail(results))

\* C24: buildSubagentRunDetails returns the given results in their order,
\* their number for totalCount and the number of those with exit code 0
\* for successCount, which lies between 0 and totalCount.
C24_DetailsCount ==
    DetailsBuilt =>
        /\ lastCall.ret.tasks = lastCall.arg.results
        /\ lastCall.ret.runId = lastCall.arg.runId
        /\ lastCall.ret.totalCount = Len(lastCall.arg.results)
        /\ lastCall.ret.successCount = Successes(lastCall.arg.results)
        /\ 0 <= lastCall.ret.successCount
        /\ lastCall.ret.successCount <= lastCall.ret.totalCount

\* A success and a failure: one of two.
C24_Witness ==
    /\ DetailsBuilt
    /\ Len(lastCall.arg.results) = 2
    /\ lastCall.arg.results[1].exitCode = 0
    /\ lastCall.arg.results[2].exitCode = 1
    /\ lastCall.ret.successCount = 1
    /\ lastCall.ret.totalCount = 2

\* ------------------------------------------ claims on the progress updates
\* The update with every task queued.
AllQueued(b) ==
    [completed |-> 0, total |-> Len(b.tasks),
     tasks |-> [k \in DOMAIN b.tasks |->
                  [taskId |-> b.tasks[k].id, prompt |-> b.tasks[k].prompt,
                   status |-> "queued", latestActivity |-> <<>>, activityCount |-> 0]]]

\* A task's entry after one of its activities.
ActivityEvent(p, q) ==
    /\ q.status = p.status
    /\ q.activityCount = p.activityCount + 1
    /\ q.latestActivity # <<>>

\* A task's entry after a change of its status.
StatusEvent(p, q) ==
    /\ <<p.status, q.status>> \in
          {<<"queued", "running">>, <<"running", "completed">>, <<"running", "failed">>}
    /\ q.activityCount = p.activityCount

\* Update q follows update p by one event of one task: both list the same
\* tasks in the same order and differ in the entry of one of them, which
\* shows one activity more or its next status.
OneEventApart(p, q) ==
    /\ DOMAIN q.tasks = DOMAIN p.tasks
    /\ q.total = p.total
    /\ \E i \in DOMAIN p.tasks :
          /\ \A k \in DOMAIN p.tasks \ {i} : q.tasks[k] = p.tasks[k]
          /\ q.tasks[i].taskId = p.tasks[i].taskId
          /\ q.tasks[i].prompt = p.tasks[i].prompt
          /\ \/ ActivityEvent(p.tasks[i], q.tasks[i]) /\ q.completed = p.completed
             \/ /\ StatusEvent(p.tasks[i], q.tasks[i])
                /\ q.completed =
                      p.completed + (IF q.tasks[i].status = "running" THEN 0 ELSE 1)

\* The activities the runners record in this step.
RECURSIVE ActivitiesRecorded(_)
ActivitiesRecorded(indexes) ==
    IF indexes = {} THEN 0
    ELSE With(CHOOSE i \in indexes : TRUE, LAMBDA i :
            (brn'[i].actCount - brn[i].actCount) + ActivitiesRecorded(indexes \ {i}))

\* The events the progress shows between two updates.
RECURSIVE EventsShown(_, _, _)
EventsShown(p, q, indexes) ==
    IF indexes = {} THEN 0
    ELSE With(CHOOSE k \in indexes : TRUE, LAMBDA k :
            (q.tasks[k].activityCount - p.tasks[k].activityCount)
            + (IF q.tasks[k].status = p.tasks[k].status THEN 0
               ELSE IF <<p.tasks[k].status, q.tasks[k].status>> = <<"queued", "running">>
               THEN 1
               ELSE IF p.tasks[k].status = "queued" THEN 2 ELSE 1)
            + EventsShown(p, q, indexes \ {k}))

\* A call that was accepted begins in this step.
BatchBegins == bt.phase = "idle" /\ bt'.tasks # <<>>

\* The updates of this step, the state of the progress before it in front.
UpdateChain ==
    IF BatchBegins THEN bt'.snapshots ELSE <<ProgressDetails(bt)>> \o bt'.snapshots

\* C25: every activity and every change of status of a task of a batch is
\* followed, before another event is handled, by one update that lists all
\* the tasks in input order and shows the event; the first update, all
\* tasks queued, comes before any task is started.
C25_EveryEventEmitted ==
    [][/\ (bt' = bt) => ActivitiesRecorded(TaskIndexes) = 0
       /\ (bt' # bt /\ bt'.tasks # <<>>) =>
             With(UpdateChain, LAMBDA chain :
                /\ BatchBegins => Head(chain) = AllQueued(bt')
                /\ \A k \in 1..(Len(chain) - 1) : OneEventApart(chain[k], chain[k + 1])
                /\ Last(chain) = ProgressDetails(bt')
                /\ Len(chain) - 1 >= ActivitiesRecorded(TaskIndexes)
                /\ Len(chain) - 1 =
                      EventsShown(Head(chain), Last(chain), DOMAIN bt'.tasks))]_vars

\* The handler that ran last finished a task and started the next: it gave
\* the updates of the end, the failure, the start and its activity.
C25_Witness ==
    /\ bt.phase = "running"
    /\ Len(bt.snapshots) = 4
    /\ bt.snapshots[2].tasks[1].status = "failed"
    /\ bt.snapshots[3].tasks[2].status = "running"
    /\ bt.snapshots[4].tasks[2].activityCount = 1
    /\ bt.emitted = 7

\* ------------------------------------------------ claims on task success
\* The call was accepted and has returned its summary.
BatchReturned == bt.phase = "returned" /\ bt.response.text = "summary"

FinalStatus(exitCode) == IF exitCode = 0 THEN "completed" ELSE "failed"

\* C26: exit code alone decides success: a task whose runner has resolved
\* shows completed when the exit code of its result is 0 and failed when
\* it is not, and the response of the batch is an error exactly when the
\* result of some task has an exit code other than 0.
C26_ExitCodeDecides ==
    /\ \A k \in DOMAIN bt.progress :
          /\ brn[k - 1].resolved =>
                bt.progress[k].status = FinalStatus(brn[k - 1].result.exitCode)
          /\ bt.progress[k].status \in {"completed", "failed"} => brn[k - 1].resolved
    /\ BatchReturned =>
          /\ \A k \in DOMAIN bt.progress :
                /\ brn[k - 1].resolved
                /\ bt.response.details.tasks[k].exitCode = brn[k - 1].result.exitCode
          /\ bt.response.isError =
                (\E k \in DOMAIN bt.progress : brn[k - 1].result.exitCode # 0)

\* A batch has returned with one task completed and one failed: an error.
C26_Witness ==
    /\ BatchReturned
    /\ Len(bt.progress) = 2
    /\ bt.progress[1].status = "completed" /\ brn[0].result.exitCode = 0
    /\ bt.progress[2].status = "failed" /\ brn[1].result.exitCode = 1
    /\ bt.response.isError

\* ------------------------------------------- claims on the plan-mode tools
PlanTools == Range(PLAN_MODE_TOOL_NAMES)

\* The tools of a list that are not plan-mode tools, in their order.
OtherTools(tools) == SelectSeq(tools, LAMBDA t : t \notin PlanTools)

\* The list holds each plan-mode tool once when the state is active and
\* none of them when it is not.
InSync(state, tools) ==
    \A t \in PlanTools :
        Occurrences(tools, t) = (IF state.active THEN 1 ELSE 0)

\* An operation of the manager runs in this step.
ManagerStep == planOps' # planOps

\* C27: after startPlanMode, setState and refresh the host's list of active
\* tools holds the four plan-mode tools, each once, when the state is
\* active and none of them when it is not; the other tools are the same in
\* the same order; pi.setActiveTools is not called for a list that is in
\* sync already, and is called once for one that is not.
C27_ToolsFollowState ==
    [][ManagerStep =>
        /\ InSync(planState', activeTools')
        /\ OtherTools(activeTools') = OtherTools(activeTools)
        /\ setToolsCalls' =
              setToolsCalls + (IF InSync(planState', activeTools) THEN 0 ELSE 1)]_vars

\* Plan mode was started over a list that held one of its tools, which has
\* kept its place, and the manager has set the list once.
C27_Witness ==
    /\ planOps = 1 /\ planState.active
    /\ activeTools =
          <<"set_plan", "read", "subagents", "steer_subagent", "request_user_input">>
    /\ setToolsCalls = 1

\* ------------------------------------- claims on the scheduler's worker loops
\* No continuation of a worker loop is waiting to run.
Stable == schPhase = "active" /\ microQ = <<>>

UnclaimedRemains == sched.nextIndex < Len(items)

\* The continuation of a worker loop runs.
ResumeStep == schPhase = "active" /\ microQ # <<>> /\ microQ' = Tail(microQ)

\* The loop whose continuation runs claims the index that was next and its
\* runner invocation is started in that step.
ClaimsNext ==
    LET w == Head(microQ)
    IN  /\ sched'.workers[w].pc = "pending"
        /\ sched'.workers[w].index = sched.nextIndex
        /\ sched'.nextIndex = sched.nextIndex + 1
        /\ sched'.startLog = Append(sched.startLog, sched.nextIndex)

\* The number of worker loops for a concurrency c and n items: floor(K)
\* kept between 1 and n for a finite K, one for any other K.
LoopsOf(c, n) ==
    IF c.kind = "finite"
    THEN (IF c.halves \div 2 < 1 THEN 1
          ELSE IF c.halves \div 2 > n THEN n ELSE c.halves \div 2)
    ELSE 1

InfinityRunsOne ==
    /\ Stable
    /\ UnclaimedRemains
    /\ concurrency.kind = "inf"
    /\ Len(items) = 2
    /\ ActiveRunners = 1

\* ------------------------------------- claims on the runner's cancellation
\* The entries of the event log after its first x (none when x is not in it).
After(log, x) ==
    IF x \in Range(log) THEN {log[k] : k \in (IndexOf(log, x) + 1)..Len(log)} ELSE {}

\* What a cancellation that is not ignored leaves in the log: "abort" when
\* the abort listener went past its guard (805-810), "timer" when the grace
\* timer fired, and the signals that were sent.
CancellationEvents == {"abort", "timer", "SIGTERM", "SIGKILL"}

\* C29: a runner sends at most one SIGTERM and at most one SIGKILL, and once
\* its process has exited it sends no signal, a cancellation that arrives is
\* a no-op and the grace timer does not fire.
C29_NothingAfterExit ==
    /\ Occurrences(rn.log, "SIGTERM") <= 1
    /\ Occurrences(rn.log, "SIGKILL") <= 1
    /\ After(rn.log, "exit") \cap CancellationEvents = {}

\* What does hold. No signal is sent twice, none after the exit of the
\* process, and after the close or error event a cancellation is ignored and
\* the timer does not fire.
NothingAfterClose ==
    /\ Occurrences(rn.log, "SIGTERM") <= 1
    /\ Occurrences(rn.log, "SIGKILL") <= 1
    /\ After(rn.log, "exit") \cap {"SIGTERM", "SIGKILL"} = {}
    /\ After(rn.log, "close") \cap CancellationEvents = {}
    /\ After(rn.log, "error") \cap CancellationEvents = {}

\* The process ended with code 0, the cancellation came before the close
\* event and the timer fired before it too: the result of the finished
\* process reads "aborted" and has the two cancellation activities.
CancelledAfterExit ==
    /\ rn.resolved
    /\ rn.log = <<"spawn", "exit", "abort", "timer", "close">>
    /\ rn.result.exitCode = 0
    /\ rn.result.stderr = <<"aborted">>
    /\ Len(rn.result.activities) = 4

\* The cancellation came after the close event and changed nothing.
CancelledAfterClose ==
    /\ rn.resolved
    /\ sig = "aborted"
    /\ rn.log = <<"spawn", "exit", "close">>
    /\ ~rn.aborted
    /\ rn.timer = "unset"

\* --------------------------------------------- claims on a steer's outcome
\* The exit code and error text a rerun can resolve with: after a failed
\* start, and for a process that ended with code 0, with code 1, or on the
\* SIGTERM of a cancellation.
RerunOutcomes(r) ==
    IF r.proc = "spawnfail"
    THEN {[exitCode |-> 1, stderr |-> ErrorMessage]}
    ELSE {[exitCode |-> 0, stderr |-> <<>>],
          [exitCode |-> 1, stderr |-> <<>>],
          [exitCode |-> 1, stderr |-> <<"aborted">>]}

\* result is a result of the rerun r: it carries the rerun's notes and one
\* of its outcomes.
RerunResultOf(result, r) ==
    /\ result.taskId = r.task.id
    /\ result.task = r.task.prompt
    /\ result.steeringNotes = r.notes
    /\ r.notes # <<>>
    /\ [exitCode |-> result.exitCode, stderr |-> result.stderr] \in RerunOutcomes(r)
    /\ result.activities # <<>>
    /\ result.activities[1] = [kind |-> "status", text |-> <<"started">>]

\* C30: when the rerun of a steer that found its run and task resolves, its
\* result is stored in the place of the task's result whatever the outcome
\* (exit code 0 or not, a failed start, a cancellation), the run is stored,
\* the details returned are computed from the run's results as they are
\* then, and the response is an error exactly when the rerun's exit code is
\* not 0.
C30_RerunAlwaysStored ==
    [][\A s \in DOMAIN steers : ResolveStep(s) =>
          LET id == steers[s].runId
              new == runObjs'[id].tasks
              result == new[HeldPlace(s)]
          IN  /\ RerunResultOf(result, steers[s].rn)
              /\ Stored(subagentRuns', id)
              /\ lastResponse'.text = "steered"
              /\ lastResponse'.isError = (result.exitCode # 0)
              /\ lastResponse'.details.runId = id
              /\ lastResponse'.details.tasks = new
              /\ lastResponse'.details.totalCount = Len(new)
              /\ lastResponse'.details.successCount = Successes(new)]_vars

\* The task that had succeeded was steered and its rerun exited with code
\* 1: the failure took the place of the success, and the details of the
\* response count no success.
C30_Witness ==
    /\ steers[1].phase = "done"
    /\ steers[2].phase = "idle"
    /\ lastResponse.text = "steered"
    /\ lastResponse.isError
    /\ lastResponse.details.successCount = 0
    /\ LET tasks == runObjs[CreateSubagentRunId(1)].tasks
       IN  /\ SampleResults[1].exitCode = 0
           /\ tasks[1].exitCode = 1
           /\ tasks[1].stderr = <<>>
           /\ tasks[1].steeringNotes = <<<<"i">>>>
           /\ lastResponse.details.tasks = tasks

\* The rerun of the second task could not be started: the result of the
\* failed start is stored.
UnstartedRerunStored ==
    /\ steers[1].phase = "done"
    /\ lastResponse.text = "steered"
    /\ lastResponse.isError
    /\ runObjs[CreateSubagentRunId(1)].tasks[2].stderr = ErrorMessage
    /\ runObjs[CreateSubagentRunId(1)].tasks[2].steeringNotes = <<<<"i">>>>

\* The task that had failed was steered and the rerun was cancelled: the
\* stored result reads "aborted".
CancelledRerunStored ==
    /\ steers[1].phase = "done"
    /\ lastResponse.text = "steered"
    /\ lastResponse.isError
    /\ runObjs[CreateSubagentRunId(1)].tasks[2].stderr = <<"aborted">>
    /\ runObjs[CreateSubagentRunId(1)].tasks[2].exitCode = 1

\* ------------------------------------ claims on the runner's standard error
\* The non-blank lines of a text.
NonBlankLines(text) == SelectSeq(SplitLines(text), LAMBDA line : Trim(line) # <<>>)

\* The stderr activities of a list of activities.
StderrActivities(activities) == SelectSeq(activities, LAMBDA a : a.kind = "stderr")

\* The runner has resolved at the close of a process that wrote to standard
\* error and was not cancelled.
ErrRead == ResolvedByClose /\ ~rn.aborted /\ errWritten # <<>>

\* C31: every non-blank line of what the process wrote to standard error is
\* one stderr activity of the result, however the stream was split into
\* chunks, and the result's stderr text is what was written, whole.
C31_StderrLinesRecorded ==
    ErrRead =>
        /\ Len(StderrActivities(rn.result.activities))
              = Len(NonBlankLines(BufferToString(errWritten)))
        /\ rn.result.stderr = BufferToString(errWritten)

\* The bytes the process has written to standard error in this step.
ErrChunkWritten == SubSeq(errWritten', Len(errWritten) + 1, Len(errWritten'))

\* What does hold: each chunk is read by itself. Every non-blank line of a
\* chunk's text, a line being what a line feed or an end of the chunk
\* bounds, is one more stderr activity, and the chunk's text is added to
\* the stderr text.
ChunkLinesRecorded ==
    [][errWritten' # errWritten /\ rn.live =>
          /\ Len(StderrActivities(rn'.activities))
                = Len(StderrActivities(rn.activities))
                    + Len(NonBlankLines(BufferToString(ErrChunkWritten)))
          /\ rn'.stderr = rn.stderr \o BufferToString(ErrChunkWritten)]_vars

\* One line that arrived in two chunks is two activities.
LineSplitInTwo ==
    /\ ErrRead
    /\ errWritten = <<"e", "e", NL>>
    /\ Len(StderrActivities(rn.result.activities)) = 2
    /\ rn.result.stderr = errWritten

\* A character whose two bytes arrived in two chunks is two replacement
\* characters in the stderr text.
ErrCharacterSplit ==
    /\ ErrRead
    /\ errWritten = <<LeadByte, TrailByte, NL>>
    /\ rn.result.stderr = <<Replacement, Replacement, NL>>

\* Two lines and a blank one that arrived whole: two activities.
WholeLinesRecorded ==
    /\ ErrRead
    /\ errWritten = <<"e", NL, " ", NL>>
    /\ Len(StderrActivities(rn.result.activities)) = 1
    /\ rn.result.stderr = errWritten

\* --------------------------------- claims on the cancellation of a batch
\* runSubagentTask is called for task index i in this step, with the signal
\* of the batch already fired.
LaunchedAfterAbort(i) == ~brn[i].live /\ brn'[i].live /\ bsig' = "aborted"

\* The runner was sent SIGTERM, and nothing else, in the step of its call.
TerminatedOnLaunch(r) ==
    /\ r.proc = "running"
    /\ r.abortRequested /\ r.aborted
    /\ r.sigLog = <<"SIGTERM">>
    /\ r.log = <<"spawn", "abort", "SIGTERM">>
    /\ r.timer = "armed"
    /\ ~r.resolved

\* A batch that has returned has one result for each of its tasks, in
\* their order.
ReturnsAllResults ==
    BatchReturned =>
        /\ Len(bt.response.details.tasks) = Len(bt.tasks)
        /\ \A k \in DOMAIN bt.tasks :
              /\ brn[k - 1].resolved
              /\ bt.response.details.tasks[k].taskId = bt.tasks[k].id

\* C32 as stated: every task claimed after the signal fired has its process
\* launched and is sent SIGTERM at once, and every cancelled task resolves
\* to a result that reads "aborted". Fails for a task whose process cannot
\* be started.
C32_AsClaimed ==
    /\ [][\A i \in TaskIndexes :
            LaunchedAfterAbort(i) => TerminatedOnLaunch(brn'[i])]_vars
    /\ [](\A i \in TaskIndexes :
            (brn[i].resolved /\ brn[i].abortRequested)
                => brn[i].result.stderr = <<"aborted">>)
    /\ []ReturnsAllResults

\* C32: a batch whose signal fired while tasks were queued still returns
\* one result per task. For each task claimed after the signal fired spawn
\* is called; when it starts the process, SIGTERM is sent in the same step
\* and the task's result reads "aborted", as that of a task cancelled in
\* flight does; when it cannot start the process, no signal is sent and the
\* result is that of the failed start.
C32_QueuedTasksCancelled ==
    /\ [][\A i \in TaskIndexes :
            LaunchedAfterAbort(i) =>
                /\ brn'[i].log[1] = "spawn"
                /\ brn'[i].abortRequested /\ brn'[i].aborted
                /\ brn'[i].proc = "running" => TerminatedOnLaunch(brn'[i])
                /\ brn'[i].proc # "running" => brn'[i].sigLog = <<>>]_vars
    /\ [](\A i \in TaskIndexes :
            (brn[i].resolved /\ brn[i].abortRequested) =>
                /\ brn[i].proc # "spawnfail" => brn[i].result.stderr = <<"aborted">>
                /\ brn[i].proc = "spawnfail" =>
                      /\ brn[i].result.stderr = ErrorMessage
                      /\ brn[i].result.exitCode = 1)
    /\ []ReturnsAllResults

\* Two tasks run one at a time: the second was claimed when the first had
\* resolved, after the signal had fired, its process was started and sent
\* SIGTERM at once, and both results read "aborted".
C32_Witness ==
    /\ BatchReturned
    /\ Len(bt.tasks) = 2
    /\ Len(bt.sched.workers) = 1
    /\ brn[0].log = <<"spawn", "abort", "SIGTERM", "exit", "close">>
    /\ brn[1].log = <<"spawn", "abort", "SIGTERM", "exit", "close">>
    /\ bt.sched.startLog = <<0, 1>>
    /\ bt.response.details.tasks[1].stderr = <<"aborted">>
    /\ bt.response.details.tasks[2].stderr = <<"aborted">>
    /\ bt.response.isError

\* The process of a task claimed after the signal fired could not be
\* started: its result carries the error of the start.
UnstartedAfterAbort ==
    /\ BatchReturned
    /\ Len(bt.tasks) = 2
    /\ Len(bt.sched.workers) = 1
    /\ bt.response.details.tasks[1].stderr = <<"aborted">>
    /\ brn[1].abortRequested
    /\ bt.response.details.tasks[2].stderr = ErrorMessage

\* ------------------------------------- claims on the runner's one result
\* A result without its list of activities.
ButActivities(result) == [result EXCEPT !.activities = <<>>]

\* C33: a runner resolves one TaskResult: once it has resolved, no later
\* event resolves it again or changes a field of the result, its list of
\* activities included.
C33_ResultNeverChanges ==
    [][rn.resolved => rn'.resolved /\ rn'.result = rn.result]_vars

\* What does hold: the runner stays resolved and every field of its result
\* but the list of activities stays as it is; the list only grows at its
\* end (it is far from its capacity here).
ResultKeptButActivities ==
    [][rn.resolved =>
          /\ rn'.resolved
          /\ ButActivities(rn'.result) = ButActivities(rn.result)
          /\ Len(rn'.result.activities) >= Len(rn.result.activities)
          /\ SubSeq(rn'.result.activities, 1, Len(rn.result.activities))
                = rn.result.activities]_vars

\* The process could not be started: the error event resolved the runner
\* and the close event that followed added its activity to the result.
ClosedAfterError ==
    /\ rn.log = <<"spawn", "error", "close">>
    /\ rn.result.stderr = ErrorMessage
    /\ rn.result.exitCode = 1
    /\ Len(rn.result.activities) = 3
    /\ rn.result.activities[3].kind = "status"

\* ------------------------------------------- claims on the progress counts
\* The tasks of a snapshot that have one of the given statuses.
WithStatus(snapshot, statuses) ==
    Cardinality({k \in DOMAIN snapshot.tasks : snapshot.tasks[k].status \in statuses})

\* The concurrency an accepted call asked for: the default of 2, or the
\* integer given.
AskedConcurrency(value) == IF value.kind = "undefined" THEN 2 ELSE value.halves \div 2

\* C34: in every progress snapshot of a batch run, completed is the number
\* of tasks whose status is completed or failed, total is the number of
\* tasks and at most as many tasks as the resolved concurrency are running;
\* the last snapshot of a batch that has returned has completed equal to
\* total and no task queued or running.
C34_SnapshotCounts ==
    /\ \A n \in DOMAIN bt.snapshots :
          /\ bt.snapshots[n].completed
                = WithStatus(bt.snapshots[n], {"completed", "failed"})
          /\ bt.snapshots[n].total = Len(bt.tasks)
          /\ Len(bt.snapshots[n].tasks) = Len(bt.tasks)
          /\ WithStatus(bt.snapshots[n], {"running"})
                <= AskedConcurrency(bt.params.concurrency)
    /\ (BatchReturned /\ bt.snapshots # <<>>) =>
          /\ Last(bt.snapshots).completed = Last(bt.snapshots).total
          /\ WithStatus(Last(bt.snapshots), {"queued", "running"}) = 0

\* Two tasks run one at a time: the close handler of the first emitted a
\* snapshot for its last activity, one with the task failed and none
\* running, then one with the second task running.
C34_Witness ==
    /\ bt.phase = "running"
    /\ bt.params.concurrency = [kind |-> "finite", halves |-> 2]
    /\ Len(bt.snapshots) >= 3
    /\ bt.snapshots[1].completed = 0
    /\ bt.snapshots[1].tasks[1].status = "running"
    /\ bt.snapshots[2].completed = 1
    /\ bt.snapshots[2].tasks[1].status = "failed"
    /\ bt.snapshots[2].tasks[2].status = "queued"
    /\ bt.snapshots[3].completed = 1
    /\ bt.snapshots[3].tasks[2].status = "running"

\* The batch has returned: its last snapshot counts both tasks.
LastSnapshotComplete ==
    /\ BatchReturned
    /\ bt.snapshots # <<>>
    /\ Last(bt.snapshots).completed = 2
    /\ Last(bt.snapshots).tasks[1].status = "completed"
    /\ Last(bt.snapshots).tasks[2].status = "failed"

\* ---------------------------------------- claims on the order of statuses
\* The snapshots emitted in this step, after the one emitted last before it
\* (every change of the progress is emitted, so that one shows the progress
\* as the step finds it).
StepSnapshots ==
    IF bt'.emitted = bt.emitted THEN <<>>
    ELSE IF bt.phase = "running" THEN <<ProgressDetails(bt)>> \o bt'.snapshots
    ELSE bt'.snapshots

FinalStatuses == {"completed", "failed"}

\* The status of an entry stays or moves one place forward.
StatusForward(p, q) ==
    <<p.status, q.status>> \in
        {<<"queued", "queued">>, <<"queued", "running">>, <<"running", "running">>,
         <<"running", "completed">>, <<"running", "failed">>,
         <<"completed", "completed">>, <<"failed", "failed">>}

\* An entry that is completed or failed stays as it is.
FinalKept(p, q) == p.status \in FinalStatuses => q = p

\* Each pair of snapshots that follow one another satisfies ok, task by task.
EachPair(snapshots, ok(_, _)) ==
    \A n \in 1..(Len(snapshots) - 1) :
        /\ DOMAIN snapshots[n + 1].tasks = DOMAIN snapshots[n].tasks
        /\ \A k \in DOMAIN snapshots[n].tasks :
              ok(snapshots[n].tasks[k], snapshots[n + 1].tasks[k])

\* C35: from one progress snapshot to the next each task's status stays or
\* moves forward along queued, running, completed or failed, never back
\* and never past running, and the entry of a task that is completed or
\* failed does not change again.
C35_StatusOnlyForward ==
    [][/\ EachPair(StepSnapshots, StatusForward)
       /\ EachPair(StepSnapshots, FinalKept)]_vars

\* What does hold: the statuses only move forward, one place at a time.
StatusesMoveForward == [][EachPair(StepSnapshots, StatusForward)]_vars

\* The process of a task could not be started: the task was marked failed
\* at the error event, and the close event that followed counted one more
\* activity for it and made that its latest.
FailedEntryChanged ==
    /\ Len(bt.progress) >= 1
    /\ brn[0].log = <<"spawn", "error", "close">>
    /\ bt.progress[1].status = "failed"
    /\ bt.progress[1].activityCount = 3
    /\ bt.progress[1].latestActivity # <<"finished (failed)">>
    /\ bt.snapshots # <<>>
    /\ Last(bt.snapshots).tasks[1] = bt.progress[1]

\* ------------------------------------------- claims on the order of starts
\* C36: the runner invocations are made in input order: the k-th invocation
\* is the one for the k-th item, so the runner for item i is invoked before
\* the runner for item j whenever i < j, for every concurrency and every
\* order of completions.
C36_StartedInInputOrder ==
    schPhase # "idle" =>
        /\ Len(sched.startLog) <= Len(items)
        /\ \A k \in DOMAIN sched.startLog : sched.startLog[k] = k - 1
        /\ schPhase = "returned" => Len(sched.startLog) = Len(items)

\* Two loops over three tasks: the second task resolved first, the third
\* before the first, and the starts were made in input order still.
C36_Witness ==
    /\ schPhase = "returned"
    /\ Len(items) = 3
    /\ Cardinality(DOMAIN sched.workers) = 2
    /\ sched.doneLog = <<1, 2, 0>>
    /\ sched.startLog = <<0, 1, 2>>

\* ------------------------------------------ claims on storing a run again
\* C37: when a steer completes for a run that is still in the registry,
\* storing the run again leaves the stored run ids and their order as they
\* are: the run keeps its place and no run is evicted. A run id that is
\* not stored goes last, and in a full registry it takes the place of the
\* run id that is first, steered or not.
C37_RestoreKeepsOrder ==
    [][/\ \A s \in DOMAIN steers :
            (ResolveStep(s) /\ Stored(subagentRuns, steers[s].runId)) =>
                /\ subagentRuns' = subagentRuns
                /\ insertLog' = insertLog
       /\ insertLog' # insertLog =>
            subagentRuns' =
                Append(IF Len(subagentRuns) = 20 THEN Tail(subagentRuns) ELSE subagentRuns,
                       Last(insertLog'))]_vars

\* The first run was steered while the registry held it, and the 21st run
\* stored after that evicted it all the same.
C37_Witness ==
    /\ steers[1].phase = "done"
    /\ steers[2].phase = "idle"
    /\ Len(insertLog) = 21
    /\ Len(subagentRuns) = 20
    /\ ~Stored(subagentRuns, CreateSubagentRunId(1))
    /\ subagentRuns[1] = CreateSubagentRunId(2)
    /\ runObjs[CreateSubagentRunId(1)].tasks[1].steeringNotes = <<<<"i">>>>

\* A steer completed for a run in a full registry that held it: all 20
\* runs are stored still, the steered one in its place.
SteeredInFullRegistry ==
    /\ steers[1].phase = "done"
    /\ lastResponse.text = "steered"
    /\ Len(insertLog) = 20
    /\ Len(subagentRuns) = 20
    /\ subagentRuns[1] = CreateSubagentRunId(1)
    /\ runObjs[CreateSubagentRunId(1)].tasks[1].steeringNotes # <<>>

\* ------------------------------------------------ claims on evicted runs
\* The run ids that were stored once and are not stored now.
Evicted == {id \in Range(insertLog) : ~Stored(subagentRuns, id)}

\* C38: a run id that has been evicted is never stored again, whatever
\* batch completions and steers follow, a steer of that run that was called
\* before the eviction and completes after it included.
C38_EvictedStaysEvicted ==
    [][\A id \in Evicted : ~Stored(subagentRuns', id)]_vars

\* What does hold: an evicted run id is stored again only by the completion
\* of a steer of that run which was called while the run was stored, and a
\* steer called for an evicted run id invokes no runner.
EvictedReturnsOnlyBySteer ==
    [][\A id \in Evicted :
          /\ Stored(subagentRuns', id) =>
                \E s \in DOMAIN steers : ResolveStep(s) /\ steers[s].runId = id
          /\ \A s \in DOMAIN steers :
                (CallStep(s) /\ steers'[s].phase = "running") => steers'[s].runId # id]_vars

\* The first run was evicted by the 21st while a steer of it was under
\* way; the steer has completed and the run can be looked up again, in the
\* place of the second.
EvictedRunBack ==
    /\ Len(insertLog) = 22
    /\ SubSeq(insertLog, 1, 21) = [k \in 1..21 |-> CreateSubagentRunId(k)]
    /\ insertLog[22] = CreateSubagentRunId(1)
    /\ Stored(subagentRuns, CreateSubagentRunId(1))
    /\ lastResponse.text = "steered"
    /\ ~lastResponse.isError

====
